---- MODULE Spec2Model ----
(***************************************************************************)
(* Realtime synchronisation subsystem of the social feed front end:        *)
(*   - WebSocketService (transport + event bus), services/websocket.js     *)
(*   - WebSocketProvider (session binding), context/WebSocketContext.jsx   *)
(*   - Feed (reconciler of one feed view), components/Feed.jsx             *)
(*   - Post (one post of the view and its like button)                     *)
(* The specifications of the module:                                       *)
(*   Spec        the transport and the session binding                     *)
(*   FeedSpec    one feed view against a server feed                       *)
(*   LikeSpec    the like_update handler of a loaded feed view             *)
(*   ToggleSpec  a like toggle of the viewer and its confirming event      *)
(*   PushSpec    pushed and locally created posts of a loaded feed view    *)
(*   PendingSpec withheld posts and the load-new control                   *)
(*   BusSpec     clients of the event bus                                  *)
(*   FrameSpec   inbound frames and the events handleMessage emits         *)
(*   LinkSpec    the transport of one session: frames, send, heartbeat     *)
(*   ManualSpec  reconnect() of the provider and its delayed connect       *)
(*   FetchSpec   page fetches of a feed view that succeed or fail          *)
(*   CommentSpec a Post while comment events and other likes arrive        *)
(*   NamedSpec   frames whose type is the name of a lifecycle event        *)
(*   RaceSpec    a refresh and a load-more of a feed view in flight        *)
(*   CountSpec   comment events of a loaded feed view                      *)
(*   ScopedSpec  pushed posts of a feed view of one author                 *)
(*   ViewSpec    a feed view subscribing to the bus and cleaning up        *)
(*   RemountSpec like presses of a Post that is mounted again              *)
(***************************************************************************)
EXTENDS Integers, Sequences, FiniteSets, Bags, TLC

(* ------------------------------ bounds -------------------------------- *)
\* posts the server creates in a run
MaxPosts == 3
\* posts per page (the scaled-down page_size of the feed request)
PageSize == 2
\* page requests in flight at the same time
MaxRequests == 2
\* pushed events in flight at the same time
MaxPush == 1
\* largest likes_count a like_update carries
MaxLikes == 2
\* replaced sockets whose close event is still to be delivered
MaxStale == 1
\* backoff timers pending at the same time
MaxTimers == 2
\* delayed connect calls of reconnect() pending at the same time
MaxManual == 1
\* largest comments_count a pushed new_comment raises a post to
MaxComments == 1

(* ------------------------- program constants -------------------------- *)
maxReconnectAttempts == 5
reconnectDelay == 1000
NormalClosure == 1000
pingPeriod == 30000
reconnectPause == 100

VARIABLES
  \* WebSocketService fields
  \* whether the WebSocket constructor throws for this page's address
  ctorThrows,
  ws, listeners, reconnectAttempts, isConnected, token, pingInterval,
  \* sockets the service no longer references but that still deliver their
  \* close event to the handlers installed on them (bag of sockets)
  stale,
  \* pending setTimeout callbacks of scheduleReconnect (bag of delays)
  timers,
  \* AuthProvider / WebSocketProvider state
  authed, mounted, effAuthed, bIsConnected, connectionStatus, manualTimers,
  \* Feed subscription effect: the isConnected value it last ran with
  feedEffConn,
  \* history of the run: what the last step did, the delays scheduled since
  \* the last open, disconnect() without a later explicit connect(),
  \* max_reconnect_attempts emitted without a later explicit connect()/open
  last, schedLog, stopped, exhausted,
  \* the outward calls of the last step, in order: the recording callbacks
  \* of bus clients, WebSocket.send, setInterval and setTimeout
  calls

wsVars == <<ctorThrows, ws, stale, listeners, reconnectAttempts, isConnected, token,
            pingInterval, timers, authed, mounted, effAuthed, bIsConnected,
            connectionStatus, manualTimers, feedEffConn, schedLog,
            stopped, exhausted, calls>>

VARIABLES
  \* the server's feed: post ids, newest first, and the last id it issued
  serverFeed, nextId,
  \* Feed component state
  posts, page, hasMore, loading, loadingMore, error, newPostsCount, user,
  \* window.scrollY < 100
  atTop,
  \* HTTP requests in flight (bag) and pushed events not yet delivered (FIFO)
  requests, pushQ,
  \* history: the ids whose post_deleted event the view has handled
  removed,
  \* the author the view is scoped to (the userId prop), "null" for the
  \* global feed
  userId

feedVars == <<serverFeed, nextId, posts, page, hasMore, loading, loadingMore,
              error, newPostsCount, user, atTop, requests, pushQ, removed, userId>>

VARIABLES
  \* one Post component: the post it shows and its local state
  view,
  \* the like request of that component: where it is, whether the server
  \* holds a like of the viewer, and (history) the isLike of the like_update
  \* that confirmed the toggle
  toggle,
  \* the posts state of a usePosts consumer
  hookPosts,
  \* history: the ids of the pushed posts the feed view has withheld
  withheld,
  \* the functions subscribe() has returned to bus clients, as
  \* <<event, callback>> pairs: those not called yet and those called
  unsubs

viewVars == <<view, toggle, hookPosts, withheld, unsubs>>

vars == <<wsVars, last, feedVars, viewVars>>

(* ------------------------------ helpers ------------------------------- *)
RECURSIVE Pow2(_)
Pow2(n) == IF n <= 0 THEN 1 ELSE 2 * Pow2(n - 1)

BindingEvents == {"connected", "disconnected", "error", "max_reconnect_attempts"}
FeedEvents == {"new_post", "like_update", "post_deleted", "new_comment", "comment_deleted"}
EventTypes == BindingEvents \cup FeedEvents

\* handler identities: the four status listeners of the provider and the
\* five handlers of a feed view
BindingHandler(ev) == "binding:" \o ev
FeedHandler(ev) == "feed:" \o ev

\* callbacks of other bus clients: each records what it is invoked with;
\* those in Throwing then throw
BusHandlers == {"h1", "h2", "h3"}
Throwing == {"h2"}

\* a recording callback registered for one event type
RecHandler(ev) == "rec:" \o ev

\* the runs of a feed view's subscription effect, and the callback a run
\* creates for an event type: every run creates its own five closures
EffectRuns == {"run1", "run2"}

ViewHandler(run, ev) == run \o ":" \o ev

ViewHandlers == {ViewHandler(run, ev) : run \in EffectRuns, ev \in FeedEvents}

\* the value of a property that is not there (ids of posts start at 1)
Undefined == 0

\* this.ws = null, and a socket in a given readyState
NoSock == [rs |-> "NULL", codes |-> {}]

Sock(rs) == [rs |-> rs, codes |-> {}]

\* the service, the React state its listeners write and the run history,
\* as one value that the methods below transform
Svc ==
  [ws |-> ws, stale |-> stale, listeners |-> listeners,
   reconnectAttempts |-> reconnectAttempts, isConnected |-> isConnected,
   token |-> token, pingInterval |-> pingInterval, timers |-> timers,
   bIsConnected |-> bIsConnected, connectionStatus |-> connectionStatus,
   schedLog |-> schedLog, stopped |-> stopped, exhausted |-> exhausted,
   calls |-> calls]

\* the service before a step: calls holds what the step itself invokes
Bus == [Svc EXCEPT !.calls = <<>>]

SetSvc(S) ==
  /\ ws' = S.ws
  /\ stale' = S.stale
  /\ listeners' = S.listeners
  /\ reconnectAttempts' = S.reconnectAttempts
  /\ isConnected' = S.isConnected
  /\ token' = S.token
  /\ pingInterval' = S.pingInterval
  /\ timers' = S.timers
  /\ bIsConnected' = S.bIsConnected
  /\ connectionStatus' = S.connectionStatus
  /\ schedLog' = S.schedLog
  /\ stopped' = S.stopped
  /\ exhausted' = S.exhausted
  /\ calls' = S.calls

(* ----------------------------- event bus ------------------------------ *)
InSeq(x, s) == \E i \in 1..Len(s) : s[i] = x

RemoveFromSeq(x, s) == SelectSeq(s, LAMBDA y : y # x)

\* subscribe: the Map gets an entry for a new event type; Set.add keeps
\* insertion order and ignores a repeated add
subscribe(S, ev, h) ==
  IF ev \notin DOMAIN S.listeners THEN [S EXCEPT !.listeners = (ev :> <<h>>) @@ @]
  ELSE IF InSeq(h, S.listeners[ev]) THEN S
  ELSE [S EXCEPT !.listeners[ev] = Append(@, h)]

\* unsubscribe that finds no callback to delete
unsubscribe_ignored(S, ev, h) == S

unsubscribe(S, ev, h) ==
  IF ev \in DOMAIN S.listeners
  THEN [S EXCEPT !.listeners[ev] = RemoveFromSeq(h, @)]
  ELSE S

\* what one registered callback does when it is invoked with data
RunHandler(S, h, data) ==
  CASE h = BindingHandler("connected") ->
         [S EXCEPT !.bIsConnected = TRUE, !.connectionStatus = "connected"]
    [] h = BindingHandler("disconnected") ->
         [S EXCEPT !.bIsConnected = FALSE, !.connectionStatus = "disconnected"]
    [] h = BindingHandler("error") ->
         [S EXCEPT !.connectionStatus = "error"]
    [] h = BindingHandler("max_reconnect_attempts") ->
         [S EXCEPT !.connectionStatus = "failed"]
    [] h \in BusHandlers \/ h \in {RecHandler(ev) : ev \in DOMAIN S.listeners}
         \/ h \in ViewHandlers ->
         [S EXCEPT !.calls = Append(@, [h |-> h, data |-> data])]
    [] OTHER -> S

\* forEach over the Set of callbacks, each call inside try/catch: a callback
\* that throws is logged and the iteration goes on
RECURSIVE RunHandlers(_, _, _)
RunHandlers(S, hs, data) ==
  IF hs = <<>> THEN S
  ELSE RunHandlers(RunHandler(S, Head(hs), data), Tail(hs), data)

\* forEach without the try/catch: the first callback that throws ends it
RECURSIVE RunHandlersUncaught(_, _, _)
RunHandlersUncaught(S, hs, data) ==
  IF hs = <<>> THEN S
  ELSE IF Head(hs) \in Throwing THEN RunHandler(S, Head(hs), data)
  ELSE RunHandlersUncaught(RunHandler(S, Head(hs), data), Tail(hs), data)

emit_uncaught(S, ev, data) ==
  IF ev \in DOMAIN S.listeners THEN RunHandlersUncaught(S, S.listeners[ev], data) ELSE S

emit(S, ev, data) ==
  IF ev \in DOMAIN S.listeners THEN RunHandlers(S, S.listeners[ev], data) ELSE S

(* ------------------------------ sockets ------------------------------- *)
\* close codes the browser may report for a socket closed by the client:
\* a socket closed before it was established fails (1006); an established
\* one reports the requested code, 1005 when none was given, or 1006 when
\* the closing handshake does not complete
CloseCodes(wasOpen, withCode) ==
  IF ~wasOpen THEN {1006}
  ELSE IF withCode THEN {NormalClosure, 1006}
  ELSE {1005, 1006}

\* WebSocket.close(): starts closing a connecting or open socket, no effect
\* on a closing or closed one
CloseSock(k, withCode) ==
  IF k.rs \in {"CONNECTING", "OPEN"}
  THEN [rs |-> "CLOSING", codes |-> CloseCodes(k.rs = "OPEN", withCode)]
  ELSE k

\* the service drops its reference to its socket: a socket that is still
\* closing keeps its handlers and will deliver its close event
Detach(S) ==
  [S EXCEPT !.ws = NoSock,
            !.stale = IF S.ws.rs = "CLOSING" THEN @ (+) SetToBag({S.ws}) ELSE @]

(* ---------------------------- the service ----------------------------- *)
stopPingInterval(S) == [S EXCEPT !.pingInterval = FALSE]

\* a heartbeat every 30 units instead of every 30000
startPingInterval_seconds(S) ==
  [stopPingInterval(S) EXCEPT !.pingInterval = TRUE,
                              !.calls = Append(@, [h |-> "setInterval", data |-> 30])]

startPingInterval(S) ==
  [stopPingInterval(S) EXCEPT !.pingInterval = TRUE,
                              !.calls = Append(@, [h |-> "setInterval", data |-> pingPeriod])]

\* the exponent taken from the counter itself
BackoffDelay_counter(n) == reconnectDelay * Pow2(n)

BackoffDelay(n) == reconnectDelay * Pow2(n - 1)

scheduleReconnect(S) ==
  IF S.reconnectAttempts >= maxReconnectAttempts
  THEN [emit(S, "max_reconnect_attempts", <<>>) EXCEPT !.exhausted = TRUE]
  ELSE LET n == S.reconnectAttempts + 1
           delay == BackoffDelay(n)
       IN [S EXCEPT !.reconnectAttempts = n,
                    !.timers = @ (+) SetToBag({delay}),
                    !.schedLog = Append(@, delay)]

\* connect(token); throws says whether the WebSocket constructor throws
connect(S, tok, throws) ==
  LET S1 == [S EXCEPT !.token = tok]
      S2 == IF S1.ws.rs # "NULL"
            THEN [S1 EXCEPT !.ws = CloseSock(@, FALSE)]
            ELSE S1
  IN IF throws THEN scheduleReconnect(S2)
     ELSE [Detach(S2) EXCEPT !.ws = Sock("CONNECTING")]

\* a connect() call that is not made by a backoff timer
explicitConnect(S, tok, throws) ==
  connect([S EXCEPT !.stopped = FALSE, !.exhausted = FALSE], tok, throws)

disconnect(S) ==
  LET S1 == stopPingInterval(S)
      S2 == IF S1.ws.rs # "NULL"
            THEN Detach([S1 EXCEPT !.ws = CloseSock(@, TRUE)])
            ELSE S1
  IN [S2 EXCEPT !.isConnected = FALSE,
                !.listeners = [ev \in EventTypes |-> <<>>],
                !.stopped = TRUE]

onopen(S) ==
  LET S1 == [S EXCEPT !.isConnected = TRUE, !.reconnectAttempts = 0,
                      !.schedLog = <<>>, !.exhausted = FALSE]
  IN startPingInterval(emit(S1, "connected", [connected |-> TRUE]))

\* reconnecting after every close, whatever its code
onclose_anyCode(S, code) ==
  LET S1 == stopPingInterval([S EXCEPT !.isConnected = FALSE])
  IN scheduleReconnect(emit(S1, "disconnected", [code |-> code]))

onclose(S, code) ==
  LET S1 == stopPingInterval([S EXCEPT !.isConnected = FALSE])
      S2 == emit(S1, "disconnected", [code |-> code])
  IN IF code # NormalClosure THEN scheduleReconnect(S2) ELSE S2

\* the like_update payload made of a new_like / unlike frame:
\* { ...data, isLike: type === 'new_like' }
LikeUpdateOf(message) == [isLike |-> message.type = "new_like"] @@ message.data

\* the frame types the server sends, and one it does not
FrameTypes == {"connected", "new_post", "new_comment", "new_like", "unlike",
               "post_deleted", "comment_deleted", "pong", "typing"}

\* every recognized type emitted under its own name with the frame's data
handleMessage_passThrough(S, message) ==
  CASE message.type \in {"new_like", "unlike"} ->
         emit(S, "like_update", LikeUpdateOf(message))
    [] message.type = "pong" -> S
    [] OTHER -> emit(S, message.type, message.data)

\* handleMessage: { ...data, k: v } is data with k set to v
handleMessage(S, message) ==
  CASE message.type = "connected" -> emit(S, "authenticated", message.data)
    [] message.type = "new_post" -> emit(S, "new_post", message.data)
    [] message.type = "new_comment" ->
         emit(S, "new_comment", [post_id |-> message.post_id] @@ message.data)
    [] message.type \in {"new_like", "unlike"} ->
         emit(S, "like_update", LikeUpdateOf(message))
    [] message.type = "post_deleted" -> emit(S, "post_deleted", message.data)
    [] message.type = "comment_deleted" -> emit(S, "comment_deleted", message.data)
    [] message.type = "pong" -> S
    [] OTHER -> emit(S, message.type, message.data)

\* JSON.stringify of a message, and JSON.parse of the text of a frame: text
\* that is not JSON (cut off, or not JSON at all) makes parse throw; the
\* JSON text null parses to null
JSONstringify(m) == [json |-> m]

JSONparse(raw) ==
  [ok |-> raw.kind # "garbage", isNull |-> raw.kind = "null", value |-> raw.msg]

\* send(data): whether it returns true, and the service after it
sendReturns(S, data) == S.ws.rs = "OPEN"

\* send handing the message to the socket whatever its readyState
send_unguarded(S, data) ==
  [S EXCEPT !.calls = Append(@, [h |-> "ws.send", data |-> JSONstringify(data)])]

send(S, data) ==
  IF S.ws.rs = "OPEN"
  THEN [S EXCEPT !.calls = Append(@, [h |-> "ws.send", data |-> JSONstringify(data)])]
  ELSE S

\* WebSocketProvider.send: false unless the provider's isConnected is true
providerSendReturns(S, data) == S.bIsConnected /\ sendReturns(S, data)

providerSend(S, data) == IF S.bIsConnected THEN send(S, data) ELSE S

\* the callback of the heartbeat interval
pingCallback(S) == send(S, [type |-> "ping"])

\* a frame that cannot be parsed reported on the bus as an error event
onmessage_emitsError(S, raw) ==
  LET r == JSONparse(raw)
  IN IF ~r.ok \/ r.isNull THEN emit(S, "error", <<>>)
     ELSE handleMessage(S, r.value)

\* ws.onmessage: JSON.parse and handleMessage inside one try/catch; parse
\* throws on text that is not JSON, the destructuring in handleMessage
\* throws on null; the catch only logs
onmessage(S, raw) ==
  LET r == JSONparse(raw)
  IN IF ~r.ok \/ r.isNull THEN S
     ELSE handleMessage(S, r.value)

(* --------------------------- initial state ---------------------------- *)
\* the feed view as Spec leaves it: not mounted, nothing in flight
FeedIdle ==
  /\ serverFeed = <<>>
  /\ nextId = 0
  /\ posts = <<>>
  /\ page = 1
  /\ hasMore = TRUE
  /\ loading = TRUE
  /\ loadingMore = FALSE
  /\ error = FALSE
  /\ newPostsCount = 0
  /\ user = "null"
  /\ atTop = TRUE
  /\ requests = EmptyBag
  /\ pushQ = <<>>
  /\ removed = {}
  /\ userId = "null"

\* no Post component tracked, no like request, no usePosts consumer, no
\* function returned by subscribe() held by a bus client
NoView == [id |-> 0, isLiked |-> FALSE, likesCount |-> 0, isLiking |-> FALSE,
           previousIsLiked |-> FALSE, previousCount |-> 0]

NoToggle == [req |-> "none", srvLiked |-> FALSE, confirmed |-> "none"]

ViewIdle ==
  /\ view = NoView
  /\ toggle = NoToggle
  /\ hookPosts = <<>>
  /\ withheld = {}
  /\ unsubs = [fresh |-> {}, called |-> {}]

AuthToken == "t1"

\* the service as constructed, the provider not mounted
WsIdle ==
  /\ ws = NoSock
  /\ stale = EmptyBag
  /\ listeners = [ev \in EventTypes |-> <<>>]
  /\ reconnectAttempts = 0
  /\ isConnected = FALSE
  /\ token = "null"
  /\ pingInterval = FALSE
  /\ timers = EmptyBag
  /\ authed = FALSE
  /\ mounted = FALSE
  /\ effAuthed = FALSE
  /\ bIsConnected = FALSE
  /\ connectionStatus = "disconnected"
  /\ manualTimers = 0
  /\ feedEffConn = FALSE
  /\ schedLog = <<>>
  /\ stopped = FALSE
  /\ exhausted = FALSE
  /\ calls = <<>>

NoLast == [op |-> "init", code |-> 0, conn |-> FALSE, arg |-> 0, who |-> ""]

Init ==
  /\ ctorThrows \in BOOLEAN
  /\ WsIdle
  /\ last = NoLast
  /\ FeedIdle
  /\ ViewIdle

(* ------------------------------ actions ------------------------------- *)
\* the bounds on pending backoff timers and on replaced sockets
Bounded(S) ==
  /\ BagCardinality(S.timers) <= MaxTimers
  /\ BagCardinality(S.stale) <= MaxStale

\* the history variable last: the operation of the step, a number it was
\* given (close code, timer delay, post id, page), a flag (connect called,
\* isLike, append), a second number and an actor
NoteX(op, code, conn, arg, who) ==
  last' = [op |-> op, code |-> code, conn |-> conn, arg |-> arg, who |-> who]

Note(op, code, conn) == NoteX(op, code, conn, 0, "")

\* AuthProvider: login completes (token and user set)
Login ==
  /\ ~authed
  /\ authed' = TRUE
  /\ Note("login", 0, FALSE)
  /\ calls' = <<>>
  /\ UNCHANGED <<ctorThrows, ws, stale, listeners, reconnectAttempts, isConnected, token,
                 pingInterval, timers, mounted, effAuthed, bIsConnected,
                 connectionStatus, manualTimers, feedEffConn, schedLog,
                 stopped, exhausted, feedVars, viewVars>>

\* AuthProvider.logout
Logout ==
  /\ authed
  /\ authed' = FALSE
  /\ Note("logout", 0, FALSE)
  /\ calls' = <<>>
  /\ UNCHANGED <<ctorThrows, ws, stale, listeners, reconnectAttempts, isConnected, token,
                 pingInterval, timers, mounted, effAuthed, bIsConnected,
                 connectionStatus, manualTimers, feedEffConn, schedLog,
                 stopped, exhausted, feedVars, viewVars>>

SubscribeBinding(S) ==
  subscribe(subscribe(subscribe(subscribe(S,
    "connected", BindingHandler("connected")),
    "disconnected", BindingHandler("disconnected")),
    "error", BindingHandler("error")),
    "max_reconnect_attempts", BindingHandler("max_reconnect_attempts"))

\* WebSocketProvider mounts: the connect effect runs, then the effect that
\* registers the status listeners
Mount ==
  /\ ~mounted
  /\ LET S1 == IF authed THEN explicitConnect(Bus, AuthToken, ctorThrows) ELSE Bus
     IN /\ Bounded(S1)
        /\ SetSvc(SubscribeBinding(S1))
  /\ mounted' = TRUE
  /\ effAuthed' = authed
  /\ Note("mount", 0, authed)
  /\ UNCHANGED <<ctorThrows, authed, manualTimers, feedEffConn, feedVars, viewVars>>

\* the connect effect re-runs because [isAuthenticated, token] changed:
\* the previous run's cleanup, then the body
ConnectEffect ==
  /\ mounted
  /\ authed # effAuthed
  /\ LET S1 == disconnect(Bus)
         S2 == IF authed THEN explicitConnect(S1, AuthToken, ctorThrows)
               ELSE IF bIsConnected THEN disconnect(S1)
               ELSE S1
     IN /\ Bounded(S2)
        /\ SetSvc(S2)
  /\ effAuthed' = authed
  /\ Note("effect", 0, authed)
  /\ UNCHANGED <<ctorThrows, authed, mounted, manualTimers, feedEffConn, feedVars, viewVars>>

\* a reconnect() that gives up once the automatic attempts are used up
reconnectSchedules_budget(S, isAuth) ==
  isAuth /\ S.reconnectAttempts < maxReconnectAttempts

\* whether reconnect() sets the timer of the delayed connect(token)
reconnectSchedules(S, isAuth) == isAuth

\* WebSocketProvider.reconnect: disconnect now, connect after a fixed delay
Reconnect ==
  /\ mounted
  /\ authed => manualTimers < MaxManual
  /\ Bounded(disconnect(Bus))
  /\ SetSvc([disconnect(Bus) EXCEPT
               !.calls = IF reconnectSchedules(Bus, authed)
                         THEN <<[h |-> "setTimeout", data |-> reconnectPause]>>
                         ELSE <<>>])
  /\ manualTimers' = IF reconnectSchedules(Bus, authed) THEN manualTimers + 1
                     ELSE manualTimers
  /\ Note("reconnect", 0, FALSE)
  /\ UNCHANGED <<ctorThrows, authed, mounted, effAuthed, feedEffConn, feedVars, viewVars>>

\* the delayed callback of reconnect() fires
ManualTimerFire ==
  /\ manualTimers > 0
  /\ LET S1 == explicitConnect(Bus, AuthToken, ctorThrows)
     IN /\ Bounded(S1)
        /\ SetSvc(S1)
  /\ manualTimers' = manualTimers - 1
  /\ Note("manual_timer", 0, TRUE)
  /\ UNCHANGED <<ctorThrows, authed, mounted, effAuthed, feedEffConn, feedVars, viewVars>>

\* a callback scheduled by scheduleReconnect fires
TimerFire ==
  \E d \in BagToSet(timers) :
    LET S1 == [Bus EXCEPT !.timers = @ (-) SetToBag({d})]
    IN IF ~S1.isConnected
       THEN /\ LET S2 == connect(S1, S1.token, ctorThrows)
               IN /\ Bounded(S2)
                  /\ SetSvc(S2)
            /\ Note("timer", d, TRUE)
            /\ UNCHANGED <<ctorThrows, authed, mounted, effAuthed, manualTimers, feedEffConn, feedVars, viewVars>>
       ELSE /\ SetSvc(S1)
            /\ Note("timer", d, FALSE)
            /\ UNCHANGED <<ctorThrows, authed, mounted, effAuthed, manualTimers, feedEffConn, feedVars, viewVars>>

\* the browser reports that the socket is established: ws.onopen
SockOpen ==
  /\ ws.rs = "CONNECTING"
  /\ SetSvc(onopen([Bus EXCEPT !.ws = Sock("OPEN")]))
  /\ Note("onopen", 0, FALSE)
  /\ UNCHANGED <<ctorThrows, authed, mounted, effAuthed, manualTimers, feedEffConn, feedVars, viewVars>>

\* the network or the server ends the current socket: ws.onclose
SockDrop ==
  \E code \in {NormalClosure, 1006} :
    /\ ws.rs \in {"CONNECTING", "OPEN"}
    /\ ws.rs = "CONNECTING" => code # NormalClosure
    /\ LET S1 == onclose([Bus EXCEPT !.ws = Sock("CLOSED")], code)
       IN /\ Bounded(S1)
          /\ SetSvc(S1)
    /\ Note("onclose", code, FALSE)
    /\ UNCHANGED <<ctorThrows, authed, mounted, effAuthed, manualTimers, feedEffConn, feedVars, viewVars>>

\* the close of a replaced socket completes: the onclose installed on it
StaleClosed ==
  \E k \in BagToSet(stale) :
    \E code \in k.codes :
      /\ LET S1 == onclose([Bus EXCEPT !.stale = @ (-) SetToBag({k})], code)
         IN /\ Bounded(S1)
            /\ SetSvc(S1)
      /\ Note("stale_onclose", code, FALSE)
      /\ UNCHANGED <<ctorThrows, authed, mounted, effAuthed, manualTimers, feedEffConn, feedVars, viewVars>>

SubscribeFeed(S) ==
  subscribe(subscribe(subscribe(subscribe(subscribe(S,
    "new_post", FeedHandler("new_post")),
    "like_update", FeedHandler("like_update")),
    "post_deleted", FeedHandler("post_deleted")),
    "new_comment", FeedHandler("new_comment")),
    "comment_deleted", FeedHandler("comment_deleted"))

UnsubscribeFeed(S) ==
  unsubscribe(unsubscribe(unsubscribe(unsubscribe(unsubscribe(S,
    "new_post", FeedHandler("new_post")),
    "like_update", FeedHandler("like_update")),
    "post_deleted", FeedHandler("post_deleted")),
    "new_comment", FeedHandler("new_comment")),
    "comment_deleted", FeedHandler("comment_deleted"))

\* the subscription effect of a mounted feed view re-runs because the
\* provider's isConnected changed
FeedEffect ==
  /\ mounted
  /\ bIsConnected # feedEffConn
  /\ LET S1 == IF feedEffConn THEN UnsubscribeFeed(Bus) ELSE Bus
     IN SetSvc(IF bIsConnected THEN SubscribeFeed(S1) ELSE S1)
  /\ feedEffConn' = bIsConnected
  /\ Note("feed_effect", 0, FALSE)
  /\ UNCHANGED <<ctorThrows, authed, mounted, effAuthed, manualTimers, feedVars, viewVars>>

Next ==
  \/ Login
  \/ Logout
  \/ Mount
  \/ ConnectEffect
  \/ Reconnect
  \/ ManualTimerFire
  \/ TimerFire
  \/ SockOpen
  \/ SockDrop
  \/ StaleClosed
  \/ FeedEffect

Spec == Init /\ [][Next]_vars

(* ------------------- the transport of one session -------------------- *)
\* the provider of an authenticated session has mounted: connect(token) was
\* called and the status listeners are registered
LinkInit ==
  /\ ctorThrows = FALSE
  /\ ws = Sock("CONNECTING")
  /\ stale = EmptyBag
  /\ listeners = [ev \in EventTypes |->
                    IF ev \in BindingEvents THEN <<BindingHandler(ev)>> ELSE <<>>]
  /\ reconnectAttempts = 0
  /\ isConnected = FALSE
  /\ token = AuthToken
  /\ pingInterval = FALSE
  /\ timers = EmptyBag
  /\ authed = TRUE
  /\ mounted = TRUE
  /\ effAuthed = TRUE
  /\ bIsConnected = FALSE
  /\ connectionStatus = "disconnected"
  /\ manualTimers = 0
  /\ feedEffConn = FALSE
  /\ schedLog = <<>>
  /\ stopped = FALSE
  /\ exhausted = FALSE
  /\ calls = <<>>
  /\ last = NoLast
  /\ FeedIdle
  /\ ViewIdle

LinkUnchanged ==
  UNCHANGED <<ctorThrows, authed, mounted, effAuthed, manualTimers, feedEffConn,
              feedVars, viewVars>>

\* the event types a client of this session listens to
LinkEvents == {"connected", "new_post"}

\* a client registers a recording callback for each of them
LinkObserve ==
  /\ \E ev \in LinkEvents : ~InSeq(RecHandler(ev), listeners[ev])
  /\ SetSvc(subscribe(subscribe(Bus, "connected", RecHandler("connected")),
                      "new_post", RecHandler("new_post")))
  /\ Note("subscribe", 0, FALSE)
  /\ LinkUnchanged

\* the messages a client sends
Outbound == {[type |-> "typing"]}

\* a client calls websocketService.send(message)
LinkSend ==
  \E m \in Outbound :
    /\ SetSvc(send(Bus, m))
    /\ NoteX("send", 0, sendReturns(Bus, m), 0, m.type)
    /\ LinkUnchanged

\* a client calls the send of the provider's context
LinkProviderSend ==
  \E m \in Outbound :
    /\ SetSvc(providerSend(Bus, m))
    /\ NoteX("provider_send", 0, providerSendReturns(Bus, m), 0, m.type)
    /\ LinkUnchanged

\* the heartbeat interval fires
PingTick ==
  /\ pingInterval
  /\ SetSvc(pingCallback(Bus))
  /\ NoteX("ping", 0, sendReturns(Bus, [type |-> "ping"]), 0, "ping")
  /\ LinkUnchanged

\* the frames the open socket delivers: text that is not JSON, the JSON text
\* null, and well-formed messages
RawFrames ==
  {[kind |-> k, msg |-> [type |-> "", data |-> [post_id |-> 0], post_id |-> Undefined]] :
     k \in {"garbage", "null"}}
  \cup {[kind |-> "message", msg |-> [type |-> t, data |-> [post_id |-> 1], post_id |-> Undefined]] :
     t \in {"new_post", "pong"}}

\* the current socket delivers a frame: ws.onmessage. The flag of the note
\* says whether the frame before this one was one that could not be decoded
Receive ==
  \E raw \in RawFrames :
    /\ ws.rs = "OPEN"
    /\ SetSvc(onmessage(Bus, raw))
    /\ last' = [op |-> "raw", code |-> 0,
                conn |-> (last.op = "raw" /\ last.who # "message"),
                arg |-> 0, who |-> raw.kind, msg |-> raw.msg]
    /\ LinkUnchanged

\* the server starts the closing handshake: the open socket is CLOSING until
\* its close event is delivered
ServerClosing ==
  /\ ws.rs = "OPEN"
  /\ ws' = [rs |-> "CLOSING", codes |-> {NormalClosure, 1006}]
  /\ calls' = <<>>
  /\ Note("closing", 0, FALSE)
  /\ UNCHANGED <<stale, listeners, reconnectAttempts, isConnected, token, pingInterval,
                 timers, bIsConnected, connectionStatus, schedLog, stopped, exhausted>>
  /\ LinkUnchanged

\* the close event of the current socket after the handshake: ws.onclose
ClosingDone ==
  \E code \in ws.codes :
    /\ ws.rs = "CLOSING"
    /\ LET S1 == onclose([Bus EXCEPT !.ws = Sock("CLOSED")], code)
       IN /\ Bounded(S1)
          /\ SetSvc(S1)
    /\ Note("onclose", code, FALSE)
    /\ LinkUnchanged

\* ws.onopen, the note keeping the attempt counter as it was before
LinkOpen ==
  /\ ws.rs = "CONNECTING"
  /\ SetSvc(onopen([Bus EXCEPT !.ws = Sock("OPEN")]))
  /\ NoteX("onopen", 0, FALSE, reconnectAttempts, "")
  /\ LinkUnchanged

LinkNext ==
  \/ Reconnect
  \/ ManualTimerFire
  \/ TimerFire
  \/ LinkOpen
  \/ SockDrop
  \/ StaleClosed
  \/ ServerClosing
  \/ ClosingDone
  \/ LinkObserve
  \/ LinkSend
  \/ LinkProviderSend
  \/ PingTick
  \/ Receive

LinkSpec == LinkInit /\ [][LinkNext]_vars

(* ----------------------- manual reconnection ------------------------- *)
\* the reconnect control of an authenticated session whose sockets fail
\* before they are established: attempts are used up, backoff timers and
\* replaced sockets are pending when reconnect() is called
ManualNext ==
  \/ Reconnect
  \/ ManualTimerFire
  \/ TimerFire
  \/ SockDrop
  \/ StaleClosed

\* the browser delivers the close event of every socket that is closing, and
\* a timer set by setTimeout fires: the callback of reconnect() is cancelled
\* by nothing, so it runs however the steps before it interleave
ManualSpec ==
  LinkInit /\ [][ManualNext]_vars /\ WF_vars(StaleClosed) /\ SF_vars(ManualTimerFire)

(* ------------- frames that name a lifecycle event --------------------- *)
\* frames whose type field is the name of one of the transport's own events,
\* and an ordinary one
NamedFrames ==
  {[kind |-> "message", msg |-> [type |-> t, data |-> [post_id |-> 1], post_id |-> Undefined]] :
     t \in BindingEvents \cup {"new_post"}}

\* the current socket delivers one of these frames: ws.onmessage
ReceiveNamed ==
  \E raw \in NamedFrames :
    /\ ws.rs = "OPEN"
    /\ SetSvc(onmessage(Bus, raw))
    /\ last' = [op |-> "raw", code |-> 0, conn |-> FALSE,
                arg |-> 0, who |-> raw.msg.type, msg |-> raw.msg]
    /\ LinkUnchanged

NamedNext ==
  \/ LinkOpen
  \/ SockDrop
  \/ TimerFire
  \/ ServerClosing
  \/ ClosingDone
  \/ PingTick
  \/ LinkObserve
  \/ ReceiveNamed

NamedSpec == LinkInit /\ [][NamedNext]_vars

(* ------------------------- the feed view ------------------------------ *)
Min(a, b) == IF a < b THEN a ELSE b

Has(ps, id) == \E i \in 1..Len(ps) : ps[i].id = id

\* a post snapshot as the server sends it
MkPost(id) == [id |-> id, likes_count |-> 0, is_liked |-> FALSE, comments_count |-> 0]

MkPosts(ids) == [i \in 1..Len(ids) |-> MkPost(ids[i])]

\* the server's answer to GET /posts?page=n&page_size=PageSize
PageOf(feed, n) == SubSeq(feed, (n - 1) * PageSize + 1, Min(n * PageSize, Len(feed)))

HasMoreOf(feed, n) == Len(feed) > n * PageSize

\* fetchPosts always adding the page to the list
ApplyFetch_alwaysAppend(prev, append, newPosts) == prev \o newPosts

\* setPosts updater of fetchPosts
ApplyFetch(prev, append, newPosts) == IF append THEN prev \o newPosts ELSE newPosts

\* the new_post handler without its test for an entry with the same id
HandleNewPost_noExistsTest(prev, data, top) ==
  IF top THEN [posts |-> <<data>> \o prev, inc |-> 0]
  ELSE [posts |-> prev, inc |-> 1]

\* the new_post handler inserting whatever the scroll position
HandleNewPost_alwaysInsert(prev, data, top) ==
  IF Has(prev, data.id) THEN [posts |-> prev, inc |-> 0]
  ELSE [posts |-> <<data>> \o prev, inc |-> 0]

\* setPosts updater of the new_post handler; inc is the change of
\* newPostsCount it makes
HandleNewPost(prev, data, top) ==
  IF Has(prev, data.id) THEN [posts |-> prev, inc |-> 0]
  ELSE IF top THEN [posts |-> <<data>> \o prev, inc |-> 0]
  ELSE [posts |-> prev, inc |-> 1]

\* the new_post handler's test before setPosts:
\* !userId || (userId && data.author_id === userId)
shouldAdd(uid, data) == uid = "null" \/ data.author_id = uid

\* the new_post handler of a feed view with the scope uid
FeedNewPost(prev, data, top, uid) ==
  IF shouldAdd(uid, data) THEN HandleNewPost(prev, data, top)
  ELSE [posts |-> prev, inc |-> 0]

\* the new_post handler of usePosts(uid): if (!userId) setPosts(...)
usePostsNewPost(prev, data, uid) ==
  IF uid = "null"
  THEN IF Has(prev, data.id) THEN prev ELSE <<data>> \o prev
  ELSE prev

\* is_liked taken from the event whoever the actor is
HandleLikeUpdate_anyActor(prev, data, usr) ==
  [i \in 1..Len(prev) |->
     IF prev[i].id = data.post_id
     THEN [prev[i] EXCEPT !.likes_count = data.likes_count,
                          !.is_liked = data.isLike]
     ELSE prev[i]]

\* the payload's count added to the local one instead of replacing it
HandleLikeUpdate_additive(prev, data, usr) ==
  [i \in 1..Len(prev) |->
     IF prev[i].id = data.post_id
     THEN [prev[i] EXCEPT !.likes_count = @ + data.likes_count,
                          !.is_liked = IF usr # "null" /\ data.user = usr
                                       THEN data.isLike ELSE @]
     ELSE prev[i]]

\* setPosts updater of the like_update handler
HandleLikeUpdate(prev, data, usr) ==
  [i \in 1..Len(prev) |->
     IF prev[i].id = data.post_id
     THEN [prev[i] EXCEPT !.likes_count = data.likes_count,
                          !.is_liked = IF usr # "null" /\ data.user = usr
                                       THEN data.isLike ELSE @]
     ELSE prev[i]]

\* setPosts updater of the new_comment handler: a new object for the post
\* the comment belongs to, every other post as it was
HandleNewComment(prev, data) ==
  [i \in 1..Len(prev) |->
     IF prev[i].id = data.post_id
     THEN [prev[i] EXCEPT !.comments_count = @ + 1]
     ELSE prev[i]]

\* the comment_deleted updater without its floor at 0
HandleCommentDeleted_noFloor(prev, data) ==
  [i \in 1..Len(prev) |->
     IF prev[i].id = data.post_id
     THEN [prev[i] EXCEPT !.comments_count = @ - 1]
     ELSE prev[i]]

\* setPosts updater of the comment_deleted handler:
\* Math.max(0, (post.comments_count || 1) - 1)
HandleCommentDeleted(prev, data) ==
  [i \in 1..Len(prev) |->
     IF prev[i].id = data.post_id
     THEN [prev[i] EXCEPT !.comments_count =
             IF (IF @ = 0 THEN 1 ELSE @) - 1 > 0 THEN (IF @ = 0 THEN 1 ELSE @) - 1 ELSE 0]
     ELSE prev[i]]

\* the post_deleted handler cutting the list at the deleted post
HandlePostDeleted_truncates(prev, id) ==
  IF Has(prev, id)
  THEN SubSeq(prev, 1, (CHOOSE i \in 1..Len(prev) : prev[i].id = id) - 1)
  ELSE prev

\* setPosts updater of the post_deleted handler
HandlePostDeleted(prev, id) == SelectSeq(prev, LAMBDA q : q.id # id)

\* setPosts updater of handleLocalPostCreated
handleLocalPostCreated(prev, newPost) ==
  IF Has(prev, newPost.id) THEN prev ELSE <<newPost>> \o prev

\* setPosts updater of the like_update handler of usePosts: the hook knows
\* no viewer
usePostsLikeUpdate(prev, data) ==
  [i \in 1..Len(prev) |->
     IF prev[i].id = data.post_id
     THEN [prev[i] EXCEPT !.likes_count = data.likes_count]
     ELSE prev[i]]

\* the post with a given id in a list that has it
PostOf(ps, id) == ps[CHOOSE i \in 1..Len(ps) : ps[i].id = id]

\* Post: the useState initial values for the post it is given
MountPost(p) ==
  [id |-> p.id, isLiked |-> p.is_liked, likesCount |-> p.likes_count,
   isLiking |-> FALSE, previousIsLiked |-> FALSE, previousCount |-> 0]

\* Post: the effect on [post], which runs when the list gives the component
\* a new object for its post
PropSync(v, ps) ==
  IF Has(ps, v.id)
  THEN [v EXCEPT !.isLiked = PostOf(ps, v.id).is_liked,
                 !.likesCount = PostOf(ps, v.id).likes_count]
  ELSE v

\* Post.handleLike up to its await: the optimistic update
handleLike(v) ==
  [v EXCEPT !.isLiking = TRUE,
            !.previousIsLiked = v.isLiked,
            !.previousCount = v.likesCount,
            !.isLiked = ~v.isLiked,
            !.likesCount = IF v.isLiked THEN @ - 1 ELSE @ + 1]

\* Post.handleLike after its await: the request succeeded, or it failed
handleLikeResolved(v) == [v EXCEPT !.isLiking = FALSE]

\* a catch that restores the flag and keeps the optimistic count
handleLikeRejected_flagOnly(v) ==
  [v EXCEPT !.isLiked = v.previousIsLiked,
            !.isLiking = FALSE]

handleLikeRejected(v) ==
  [v EXCEPT !.isLiked = v.previousIsLiked,
            !.likesCount = v.previousCount,
            !.isLiking = FALSE]

Viewer == "u1"
Actors == {"u1", "u2"}

\* a feed view right after it mounted: the first page is being fetched
FeedInit ==
  /\ ctorThrows = FALSE
  /\ WsIdle
  /\ last = NoLast
  /\ serverFeed = <<>>
  /\ nextId = 0
  /\ posts = <<>>
  /\ page = 1
  /\ hasMore = TRUE
  /\ loading = TRUE
  /\ loadingMore = FALSE
  /\ error = FALSE
  /\ newPostsCount = 0
  /\ user = Viewer
  /\ atTop = TRUE
  /\ requests = SetToBag({[pageNum |-> 1, append |-> FALSE, st |-> "sent",
                            items |-> <<>>, has_more |-> FALSE]})
  /\ pushQ = <<>>
  /\ removed = {}
  /\ userId = "null"
  /\ ViewIdle

\* another session creates a post: the server stores it and pushes new_post
ServerCreate ==
  /\ nextId < MaxPosts
  /\ Len(pushQ) < MaxPush
  /\ nextId' = nextId + 1
  /\ serverFeed' = <<nextId + 1>> \o serverFeed
  /\ pushQ' = Append(pushQ, [type |-> "new_post", id |-> nextId + 1])
  /\ Note("env", 0, FALSE)
  /\ UNCHANGED <<posts, page, hasMore, loading, loadingMore, error,
                 newPostsCount, user, atTop, requests, removed, userId, wsVars, viewVars>>

\* a post is deleted on the server, which pushes post_deleted
ServerDelete ==
  \E i \in 1..Len(serverFeed) :
    /\ Len(pushQ) < MaxPush
    /\ serverFeed' = SelectSeq(serverFeed, LAMBDA x : x # serverFeed[i])
    /\ pushQ' = Append(pushQ, [type |-> "post_deleted", id |-> serverFeed[i]])
    /\ Note("env", 0, FALSE)
    /\ UNCHANGED <<nextId, posts, page, hasMore, loading, loadingMore, error,
                   newPostsCount, user, atTop, requests, removed, userId, wsVars, viewVars>>

\* the viewer scrolls away from the top or back to it
Scroll ==
  /\ atTop' = ~atTop
  /\ Note("env", 0, FALSE)
  /\ UNCHANGED <<serverFeed, nextId, posts, page, hasMore, loading, loadingMore,
                 error, newPostsCount, user, requests, pushQ, removed, userId, wsVars, viewVars>>

\* fetchPosts(pageNum, append) up to its await
IssueFetch(pageNum, append) ==
  /\ BagCardinality(requests) < MaxRequests
  /\ loading' = IF pageNum = 1 THEN TRUE ELSE loading
  /\ loadingMore' = IF pageNum = 1 THEN loadingMore ELSE TRUE
  /\ error' = FALSE
  /\ requests' = requests (+) SetToBag({[pageNum |-> pageNum, append |-> append,
                                         st |-> "sent", items |-> <<>>,
                                         has_more |-> FALSE]})

\* the next page is requested by the intersection observer or the button
LoadMore ==
  /\ Len(posts) > 0
  /\ hasMore
  /\ ~loadingMore
  /\ IssueFetch(page + 1, TRUE)
  /\ Note("load_more", page + 1, TRUE)
  /\ UNCHANGED <<serverFeed, nextId, posts, page, hasMore, newPostsCount, user,
                 atTop, pushQ, removed, userId, wsVars, viewVars>>

\* handleRefresh: the refresh button of the list or of the empty state
Refresh ==
  /\ ~loading
  /\ Len(posts) > 0 => newPostsCount = 0
  /\ Len(posts) = 0 => ~error
  /\ newPostsCount' = 0
  /\ IssueFetch(1, FALSE)
  /\ Note("refresh", 1, FALSE)
  /\ UNCHANGED <<serverFeed, nextId, posts, page, hasMore, user, atTop, pushQ,
                 removed, userId, wsVars, viewVars>>

\* the retry button of the error state
Retry ==
  /\ ~loading
  /\ Len(posts) = 0
  /\ error
  /\ IssueFetch(1, FALSE)
  /\ Note("retry", 1, FALSE)
  /\ UNCHANGED <<serverFeed, nextId, posts, page, hasMore, newPostsCount, user,
                 atTop, pushQ, removed, userId, wsVars, viewVars>>

\* loadNewPosts: the banner that announces withheld posts
LoadNew ==
  /\ Len(posts) > 0
  /\ newPostsCount > 0
  /\ newPostsCount' = 0
  /\ atTop' = TRUE
  /\ IssueFetch(1, FALSE)
  /\ Note("load_new", 1, FALSE)
  /\ UNCHANGED <<serverFeed, nextId, posts, page, hasMore, user, pushQ,
                 removed, userId, wsVars, viewVars>>

\* the server answers a page request from its feed as it is now, or fails
ServerRespond ==
  \E r \in BagToSet(requests), ok \in BOOLEAN :
    /\ r.st = "sent"
    /\ requests' = (requests (-) SetToBag({r})) (+) SetToBag({
         IF ok THEN [r EXCEPT !.st = "ok",
                              !.items = PageOf(serverFeed, r.pageNum),
                              !.has_more = HasMoreOf(serverFeed, r.pageNum)]
         ELSE [r EXCEPT !.st = "fail"]})
    /\ Note("env", 0, FALSE)
    /\ UNCHANGED <<serverFeed, nextId, posts, page, hasMore, loading, loadingMore,
                   error, newPostsCount, user, atTop, pushQ, removed, userId, wsVars, viewVars>>

\* fetchPosts after its await, the request succeeded
FetchComplete ==
  \E r \in BagToSet(requests) :
    /\ r.st = "ok"
    /\ requests' = requests (-) SetToBag({r})
    /\ posts' = ApplyFetch(posts, r.append, MkPosts(r.items))
    /\ hasMore' = r.has_more
    /\ page' = r.pageNum
    /\ loading' = FALSE
    /\ loadingMore' = FALSE
    /\ Note("fetch_ok", r.pageNum, r.append)
    /\ UNCHANGED <<serverFeed, nextId, error, newPostsCount, user, atTop, pushQ,
                   removed, userId, wsVars, viewVars>>

\* a failed request that also empties the list and goes back to page 1
FetchFailed_clearsList ==
  \E r \in BagToSet(requests) :
    /\ r.st = "fail"
    /\ requests' = requests (-) SetToBag({r})
    /\ posts' = <<>>
    /\ page' = 1
    /\ error' = TRUE
    /\ loading' = FALSE
    /\ loadingMore' = FALSE
    /\ Note("fetch_fail", r.pageNum, r.append)
    /\ UNCHANGED <<serverFeed, nextId, hasMore, newPostsCount, user,
                   atTop, pushQ, removed, userId, wsVars, viewVars>>

\* fetchPosts after its await, the request failed
FetchFailed ==
  \E r \in BagToSet(requests) :
    /\ r.st = "fail"
    /\ requests' = requests (-) SetToBag({r})
    /\ error' = TRUE
    /\ loading' = FALSE
    /\ loadingMore' = FALSE
    /\ Note("fetch_fail", r.pageNum, r.append)
    /\ UNCHANGED <<serverFeed, nextId, posts, page, hasMore, newPostsCount, user,
                   atTop, pushQ, removed, userId, wsVars, viewVars>>

\* the new_post handler runs for the oldest pushed event
PushNewPost ==
  /\ pushQ # <<>>
  /\ Head(pushQ).type = "new_post"
  /\ LET res == HandleNewPost(posts, MkPost(Head(pushQ).id), atTop)
     IN /\ posts' = res.posts
        /\ newPostsCount' = newPostsCount + res.inc
        /\ withheld' = IF res.inc > 0 THEN withheld \cup {Head(pushQ).id} ELSE withheld
  /\ pushQ' = Tail(pushQ)
  /\ NoteX("new_post", Head(pushQ).id, atTop,
           IF Has(posts, Head(pushQ).id) THEN 1 ELSE 0, "")
  /\ UNCHANGED <<serverFeed, nextId, page, hasMore, loading, loadingMore, error,
                 user, atTop, requests, removed, userId, wsVars, view, toggle, hookPosts,
                 unsubs>>

\* the post_deleted handler runs for the oldest pushed event
PushPostDeleted ==
  /\ pushQ # <<>>
  /\ Head(pushQ).type = "post_deleted"
  /\ posts' = HandlePostDeleted(posts, Head(pushQ).id)
  /\ removed' = removed \cup {Head(pushQ).id}
  /\ userId' = userId
  /\ pushQ' = Tail(pushQ)
  /\ Note("post_deleted", Head(pushQ).id, Has(posts, Head(pushQ).id))
  /\ UNCHANGED <<serverFeed, nextId, page, hasMore, loading, loadingMore, error,
                 newPostsCount, user, atTop, requests, wsVars, viewVars>>

\* the like_update handlers run for data: the feed view's, then the effect
\* of the Post that shows the post, and the handler of a usePosts consumer
DeliverLikeUpdate(data) ==
  /\ posts' = HandleLikeUpdate(posts, data, user)
  /\ view' = IF data.post_id = view.id THEN PropSync(view, posts') ELSE view
  /\ hookPosts' = usePostsLikeUpdate(hookPosts, data)
  /\ NoteX("like_update", data.post_id, data.isLike, data.likes_count, data.user)

\* a new_like / unlike of some session is pushed and handled
PushLikeUpdate ==
  \E pid \in 1..MaxPosts, cnt \in 0..MaxLikes, who \in Actors, isLike \in BOOLEAN :
    /\ DeliverLikeUpdate([post_id |-> pid, likes_count |-> cnt,
                          user |-> who, isLike |-> isLike])
    /\ UNCHANGED <<serverFeed, nextId, page, hasMore, loading, loadingMore, error,
                   newPostsCount, user, atTop, requests, pushQ, removed, userId, wsVars,
                   toggle, withheld, unsubs>>

FeedNext ==
  \/ ServerCreate
  \/ ServerDelete
  \/ Scroll
  \/ LoadMore
  \/ Refresh
  \/ Retry
  \/ LoadNew
  \/ ServerRespond
  \/ FetchComplete
  \/ FetchFailed
  \/ PushNewPost
  \/ PushPostDeleted

FeedSpec == FeedInit /\ [][FeedNext]_vars

\* a feed view that pages through a growing server feed, every request of
\* which may fail
FetchNext ==
  \/ ServerCreate
  \/ PushNewPost
  \/ LoadMore
  \/ Refresh
  \/ Retry
  \/ ServerRespond
  \/ FetchComplete
  \/ FetchFailed

FetchSpec == FeedInit /\ [][FetchNext]_vars

\* a server feed of three pages that does not change, and a view that has
\* loaded its first page
RaceInit ==
  /\ ctorThrows = FALSE
  /\ WsIdle
  /\ last = NoLast
  /\ serverFeed = [i \in 1..(2 * PageSize + 1) |-> 2 * PageSize + 2 - i]
  /\ nextId = 2 * PageSize + 1
  /\ posts = MkPosts(PageOf(serverFeed, 1))
  /\ page = 1
  /\ hasMore = HasMoreOf(serverFeed, 1)
  /\ loading = FALSE
  /\ loadingMore = FALSE
  /\ error = FALSE
  /\ newPostsCount = 0
  /\ user = Viewer
  /\ atTop = TRUE
  /\ requests = EmptyBag
  /\ pushQ = <<>>
  /\ removed = {}
  /\ userId = "null"
  /\ ViewIdle

\* page requests of that view: the next page, and the first page again
RaceNext ==
  \/ LoadMore
  \/ Refresh
  \/ ServerRespond
  \/ FetchComplete
  \/ FetchFailed

RaceSpec == RaceInit /\ [][RaceNext]_vars

\* a feed view that has loaded a list of posts and receives like events
LikeInit ==
  /\ ctorThrows = FALSE
  /\ WsIdle
  /\ last = NoLast
  /\ nextId = MaxPosts
  /\ \E n \in 0..MaxPosts :
       /\ serverFeed = [i \in 1..n |-> MaxPosts + 1 - i]
       /\ posts = MkPosts(serverFeed)
  /\ page = 1
  /\ hasMore = FALSE
  /\ loading = FALSE
  /\ loadingMore = FALSE
  /\ error = FALSE
  /\ newPostsCount = 0
  /\ user \in {"null", Viewer}
  /\ atTop = TRUE
  /\ requests = EmptyBag
  /\ pushQ = <<>>
  /\ removed = {}
  /\ userId = "null"
  /\ view = NoView
  /\ toggle = NoToggle
  /\ hookPosts = posts
  /\ withheld = {}
  /\ unsubs = [fresh |-> {}, called |-> {}]

LikeNext ==
  \/ PushLikeUpdate

LikeSpec == LikeInit /\ [][LikeNext]_vars

(* ------------------------ clients of the event bus -------------------- *)
\* the service as constructed, no consumer mounted
BusInit ==
  /\ ctorThrows = FALSE
  /\ WsIdle
  /\ last = NoLast
  /\ FeedIdle
  /\ ViewIdle

\* the subscriptions the clients make: three callbacks for one event type,
\* one of them for a second type too
BusSubs == {<<"new_post", "h1">>, <<"new_post", "h2">>, <<"new_post", "h3">>,
            <<"like_update", "h1">>}

NoteBus(op, ev, h, flag) ==
  last' = [op |-> op, code |-> 0, conn |-> flag, arg |-> 0, who |-> h, ev |-> ev]

BusUnchanged ==
  UNCHANGED <<ctorThrows, authed, mounted, effAuthed, manualTimers, feedEffConn,
              feedVars, view, toggle, hookPosts, withheld>>

\* subscribe(ev, h): the client keeps the function it returns
BusSubscribe ==
  \E sub \in BusSubs :
    /\ SetSvc(subscribe(Bus, sub[1], sub[2]))
    /\ unsubs' = [unsubs EXCEPT !.fresh = @ \cup {sub}]
    /\ NoteBus("subscribe", sub[1], sub[2], InSeq(sub[2], listeners[sub[1]]))
    /\ BusUnchanged

\* a function returned by subscribe is called for the first time
CallUnsubFirst ==
  \E sub \in unsubs.fresh :
    /\ SetSvc(unsubscribe(Bus, sub[1], sub[2]))
    /\ unsubs' = [fresh |-> unsubs.fresh \ {sub}, called |-> unsubs.called \cup {sub}]
    /\ NoteBus("unsub_first", sub[1], sub[2], InSeq(sub[2], listeners[sub[1]]))
    /\ BusUnchanged

\* a function returned by subscribe is called once more
CallUnsubAgain ==
  \E sub \in unsubs.called :
    /\ SetSvc(unsubscribe(Bus, sub[1], sub[2]))
    /\ NoteBus("unsub_again", sub[1], sub[2], InSeq(sub[2], listeners[sub[1]]))
    /\ UNCHANGED unsubs
    /\ BusUnchanged

\* unsubscribe(ev, h) by a client that kept the callback
BusUnsubscribe ==
  \E sub \in BusSubs :
    /\ SetSvc(unsubscribe(Bus, sub[1], sub[2]))
    /\ NoteBus("unsubscribe", sub[1], sub[2], InSeq(sub[2], listeners[sub[1]]))
    /\ UNCHANGED unsubs
    /\ BusUnchanged

\* emit(ev, data)
BusEmit ==
  \E ev \in {"new_post", "like_update"} :
    /\ SetSvc(emit(Bus, ev, [id |-> 1]))
    /\ NoteBus("emit", ev, "", FALSE)
    /\ UNCHANGED unsubs
    /\ BusUnchanged

\* unsubscribe(ev, h) and, in the same task, emit(ev, data)
UnsubscribeThenEmit ==
  \E sub \in BusSubs :
    /\ InSeq(sub[2], listeners[sub[1]])
    /\ SetSvc(emit(unsubscribe(Bus, sub[1], sub[2]), sub[1], [id |-> 1]))
    /\ NoteBus("unsub_emit", sub[1], sub[2], TRUE)
    /\ UNCHANGED unsubs
    /\ BusUnchanged

\* disconnect(): the Map of listeners is cleared
BusDisconnect ==
  /\ SetSvc(disconnect(Bus))
  /\ NoteBus("disconnect", "", "", FALSE)
  /\ UNCHANGED unsubs
  /\ BusUnchanged

BusNext ==
  \/ BusSubscribe
  \/ CallUnsubFirst
  \/ CallUnsubAgain
  \/ BusUnsubscribe
  \/ BusEmit
  \/ UnsubscribeThenEmit
  \/ BusDisconnect

BusSpec == BusInit /\ [][BusNext]_vars

(* ------------------ a feed view as a client of the bus ---------------- *)
\* the order in which the effect subscribes
FeedEventSeq == <<"new_post", "like_update", "post_deleted", "new_comment",
                  "comment_deleted">>

\* the body of the subscription effect after its isConnected guard: five
\* subscribe calls, the functions they return pushed to unsubscribers
RECURSIVE ViewSubscribe(_, _, _)
ViewSubscribe(S, run, evs) ==
  IF evs = <<>> THEN S
  ELSE ViewSubscribe(subscribe(S, Head(evs), ViewHandler(run, Head(evs))), run, Tail(evs))

ViewUnsubscribers(run) == {<<ev, ViewHandler(run, ev)>> : ev \in FeedEvents}

\* an unsubscribe function that does nothing for the comment events
callUnsub_keepsComments(S, sub) ==
  IF sub[1] \in {"new_comment", "comment_deleted"} THEN S
  ELSE unsubscribe(S, sub[1], sub[2])

\* the function subscribe returned for ev and h:
\* () => this.unsubscribe(event, callback)
callUnsub(S, sub) == unsubscribe(S, sub[1], sub[2])

\* the cleanup of the effect: every function in unsubscribers is called
RECURSIVE ViewCleanup(_, _)
ViewCleanup(S, subs) ==
  IF subs = {} THEN S
  ELSE LET sub == CHOOSE x \in subs : TRUE
       IN ViewCleanup(callUnsub(S, sub), subs \ {sub})

\* the handlers of the view that are on the bus
ViewOnBus(ls) ==
  UNION {{<<ev, ls[ev][i]>> : i \in {j \in 1..Len(ls[ev]) : ls[ev][j] \in ViewHandlers}} :
           ev \in DOMAIN ls}

\* the effect runs again because isConnected, userId or user changed (or
\* for the first time, when the view mounts): the cleanup of the run
\* before, then the body with the isConnected of this render
ViewEffect ==
  \E conn \in BOOLEAN, run \in EffectRuns :
    /\ \A sub \in unsubs.fresh : sub[2] # ViewHandler(run, sub[1])
    /\ LET S1 == ViewCleanup([Bus EXCEPT !.bIsConnected = conn], unsubs.fresh)
       IN SetSvc(IF conn THEN ViewSubscribe(S1, run, FeedEventSeq) ELSE S1)
    /\ unsubs' = [fresh |-> IF conn THEN ViewUnsubscribers(run) ELSE {},
                  called |-> unsubs.called \cup unsubs.fresh]
    /\ NoteBus("view_effect", "", run, unsubs.fresh # {} /\ unsubs.fresh \subseteq ViewOnBus(listeners))
    /\ BusUnchanged

\* the view unmounts: the cleanup of the last run
ViewTeardown ==
  /\ unsubs.fresh # {}
  /\ SetSvc(ViewCleanup(Bus, unsubs.fresh))
  /\ unsubs' = [fresh |-> {}, called |-> unsubs.called \cup unsubs.fresh]
  /\ NoteBus("view_teardown", "", "", unsubs.fresh \subseteq ViewOnBus(listeners))
  /\ BusUnchanged

\* an event the view listens to is emitted
ViewEmit ==
  \E ev \in FeedEvents :
    /\ SetSvc(emit(Bus, ev, [post_id |-> 1]))
    /\ NoteBus("emit", ev, "", FALSE)
    /\ UNCHANGED unsubs
    /\ BusUnchanged

ViewNext ==
  \/ ViewEffect
  \/ ViewTeardown
  \/ ViewEmit
  \/ BusDisconnect

ViewSpec == BusInit /\ [][ViewNext]_vars

(* ------------------------- inbound frames ----------------------------- *)
\* the event types a client may listen to: those of the frames and those
\* handleMessage emits
ObservedEvents == FrameTypes \cup {"authenticated", "like_update"}

\* payloads of the frames, and the post_id a frame carries beside its data
FrameData == {[post_id |-> 1],
              [post_id |-> 1, likes_count |-> 2, user |-> "u2"]}

FramePostIds == {Undefined, 2}

\* a client registers a recording callback for an event type
Observe ==
  \E ev \in ObservedEvents :
    /\ SetSvc(subscribe(Bus, ev, RecHandler(ev)))
    /\ NoteBus("subscribe", ev, RecHandler(ev), FALSE)
    /\ UNCHANGED unsubs
    /\ BusUnchanged

\* ws.onmessage: the frame is parsed and handed to handleMessage
HandleFrame ==
  \E type \in FrameTypes, data \in FrameData, pid \in FramePostIds :
    /\ SetSvc(handleMessage(Bus, [type |-> type, data |-> data, post_id |-> pid]))
    /\ last' = [op |-> "frame", code |-> 0, conn |-> FALSE, arg |-> 0, who |-> type,
                ev |-> "", msg |-> [type |-> type, data |-> data, post_id |-> pid]]
    /\ UNCHANGED unsubs
    /\ BusUnchanged

FrameNext ==
  \/ Observe
  \/ HandleFrame

FrameSpec == BusInit /\ [][FrameNext]_vars

(* ----------------- a feed view and the posts pushed to it -------------- *)
\* the viewer submits a post (the form is disabled while a submission is in
\* flight): the server stores it, pushes new_post to every session, the
\* viewer's included, and answers the request
CreateOwn ==
  /\ nextId < MaxPosts
  /\ Len(pushQ) < MaxPush
  /\ \A r \in BagToSet(requests) : r.st # "created"
  /\ nextId' = nextId + 1
  /\ serverFeed' = <<nextId + 1>> \o serverFeed
  /\ pushQ' = Append(pushQ, [type |-> "new_post", id |-> nextId + 1])
  /\ requests' = requests (+) SetToBag({[pageNum |-> 0, append |-> FALSE,
                                         st |-> "created", items |-> <<nextId + 1>>,
                                         has_more |-> FALSE]})
  /\ Note("env", 0, FALSE)
  /\ UNCHANGED <<posts, page, hasMore, loading, loadingMore, error,
                 newPostsCount, user, atTop, removed, userId, wsVars, viewVars>>

\* the answer to the viewer's submission arrives: handleLocalPostCreated
LocalPostCreated ==
  \E r \in BagToSet(requests) :
    /\ r.st = "created"
    /\ requests' = requests (-) SetToBag({r})
    /\ posts' = handleLocalPostCreated(posts, MkPost(r.items[1]))
    /\ NoteX("local_create", r.items[1], FALSE,
             IF Has(posts, r.items[1]) THEN 1 ELSE 0, "")
    /\ UNCHANGED <<serverFeed, nextId, page, hasMore, loading, loadingMore, error,
                   newPostsCount, user, atTop, pushQ, removed, userId, wsVars, viewVars>>

\* the new_post frame of a post that still exists reaches the view once more
ServerPushAgain ==
  \E i \in 1..Len(serverFeed) :
    /\ Len(pushQ) < MaxPush
    /\ newPostsCount < MaxPosts
    /\ pushQ' = Append(pushQ, [type |-> "new_post", id |-> serverFeed[i]])
    /\ Note("env", 0, FALSE)
    /\ UNCHANGED <<serverFeed, nextId, posts, page, hasMore, loading, loadingMore,
                   error, newPostsCount, user, atTop, requests, removed, userId, wsVars,
                   viewVars>>

\* a feed view that has loaded the server's feed, nothing in flight
PushInit ==
  /\ ctorThrows = FALSE
  /\ WsIdle
  /\ last = NoLast
  /\ \E n \in 0..MaxPosts :
       /\ nextId = n
       /\ serverFeed = [i \in 1..n |-> n + 1 - i]
       /\ posts = MkPosts(serverFeed)
  /\ page = 1
  /\ hasMore = FALSE
  /\ loading = FALSE
  /\ loadingMore = FALSE
  /\ error = FALSE
  /\ newPostsCount = 0
  /\ user = Viewer
  /\ atTop = TRUE
  /\ requests = EmptyBag
  /\ pushQ = <<>>
  /\ removed = {}
  /\ userId = "null"
  /\ ViewIdle

\* the pushed events and the local insertions, no page fetch
PushNext ==
  \/ ServerCreate
  \/ CreateOwn
  \/ ServerPushAgain
  \/ ServerDelete
  \/ Scroll
  \/ PushNewPost
  \/ PushPostDeleted
  \/ LocalPostCreated

PushSpec == PushInit /\ [][PushNext]_vars

\* posts pushed to a view that withholds them until the viewer asks
PendingNext ==
  \/ ServerCreate
  \/ Scroll
  \/ PushNewPost
  \/ LoadNew
  \/ ServerRespond
  \/ FetchComplete
  \/ FetchFailed

PendingSpec == FeedInit /\ [][PendingNext]_vars

(* --------------------- a feed view of one author ---------------------- *)
\* the author of the post with a given id, and the post as the server
\* pushes it
AuthorOf(id) == IF id % 2 = 1 THEN "u1" ELSE "u2"

AuthoredPost(id) == [author_id |-> AuthorOf(id)] @@ MkPost(id)

\* the posts of a scope among the ids of a feed, newest first
InScope(feed, uid) == SelectSeq(feed, LAMBDA x : uid = "null" \/ AuthorOf(x) = uid)

\* a feed view of the global feed or of one author's profile that has
\* loaded the posts of its scope, and a usePosts consumer of the same scope
ScopedInit ==
  /\ ctorThrows = FALSE
  /\ WsIdle
  /\ last = NoLast
  /\ userId \in {"null"} \cup Actors
  /\ \E n \in 0..MaxPosts :
       /\ nextId = n
       /\ serverFeed = [i \in 1..n |-> n + 1 - i]
       /\ posts = [i \in 1..Len(InScope(serverFeed, userId)) |->
                     AuthoredPost(InScope(serverFeed, userId)[i])]
  /\ page = 1
  /\ hasMore = FALSE
  /\ loading = FALSE
  /\ loadingMore = FALSE
  /\ error = FALSE
  /\ newPostsCount = 0
  /\ user = Viewer
  /\ atTop = TRUE
  /\ requests = EmptyBag
  /\ pushQ = <<>>
  /\ removed = {}
  /\ view = NoView
  /\ toggle = NoToggle
  /\ hookPosts = posts
  /\ withheld = {}
  /\ unsubs = [fresh |-> {}, called |-> {}]

\* a new_post of some author is pushed and handled by the view and the hook
PushAuthored ==
  \E id \in 1..MaxPosts :
    /\ newPostsCount < MaxPosts
    /\ LET res == FeedNewPost(posts, AuthoredPost(id), atTop, userId)
       IN /\ posts' = res.posts
          /\ newPostsCount' = newPostsCount + res.inc
          /\ withheld' = IF res.inc > 0 THEN withheld \cup {id} ELSE withheld
    /\ hookPosts' = usePostsNewPost(hookPosts, AuthoredPost(id), userId)
    /\ NoteX("new_post", id, atTop, IF Has(posts, id) THEN 1 ELSE 0, AuthorOf(id))
    /\ UNCHANGED <<serverFeed, nextId, page, hasMore, loading, loadingMore, error,
                   user, atTop, requests, pushQ, removed, userId, wsVars, view,
                   toggle, unsubs>>

ScopedNext ==
  \/ Scroll
  \/ PushAuthored

ScopedSpec == ScopedInit /\ [][ScopedNext]_vars

(* ------------------------ the like toggle of a Post ------------------- *)
\* a loaded feed view of the viewer and the Post component of one of its posts
ToggleInit ==
  /\ ctorThrows = FALSE
  /\ WsIdle
  /\ last = NoLast
  /\ nextId = MaxPosts
  /\ \E n \in 1..MaxPosts :
       /\ serverFeed = [i \in 1..n |-> MaxPosts + 1 - i]
       /\ posts = MkPosts(serverFeed)
  /\ page = 1
  /\ hasMore = FALSE
  /\ loading = FALSE
  /\ loadingMore = FALSE
  /\ error = FALSE
  /\ newPostsCount = 0
  /\ user = Viewer
  /\ atTop = TRUE
  /\ requests = EmptyBag
  /\ pushQ = <<>>
  /\ removed = {}
  /\ userId = "null"
  /\ view \in {MountPost(posts[i]) : i \in 1..Len(posts)}
  /\ toggle = NoToggle
  /\ hookPosts = <<>>
  /\ withheld = {}
  /\ unsubs = [fresh |-> {}, called |-> {}]

\* the viewer presses the like button: handleLike runs up to its await
HandleLike ==
  /\ view.id # 0
  /\ ~view.isLiking
  /\ view' = handleLike(view)
  /\ toggle' = [toggle EXCEPT !.req = "sent", !.confirmed = "none"]
  /\ NoteX("handleLike", view.id, view.isLiked, 0, user)
  /\ UNCHANGED <<wsVars, feedVars, hookPosts, withheld, unsubs>>

\* the server handles POST /likes/:id/toggle: it toggles the viewer's like
\* and pushes new_like or unlike to every session, the viewer's included
ServerToggle ==
  \E cnt \in 0..MaxLikes :
    /\ toggle.req = "sent"
    /\ Len(pushQ) < MaxPush
    /\ ~toggle.srvLiked => cnt >= 1
    /\ toggle' = [toggle EXCEPT !.req = "applied", !.srvLiked = ~toggle.srvLiked]
    /\ pushQ' = Append(pushQ,
         [type |-> IF ~toggle.srvLiked THEN "new_like" ELSE "unlike",
          data |-> [post_id |-> view.id, likes_count |-> cnt, user |-> user],
          post_id |-> Undefined])
    /\ Note("env", 0, FALSE)
    /\ UNCHANGED <<wsVars, serverFeed, nextId, posts, page, hasMore, loading,
                   loadingMore, error, newPostsCount, user, atTop, requests,
                   removed, userId, view, hookPosts, withheld, unsubs>>

\* the pushed frame of the viewer's own toggle arrives and is handled
PushLikeFrame ==
  /\ pushQ # <<>>
  /\ Head(pushQ).type \in {"new_like", "unlike"}
  /\ DeliverLikeUpdate(LikeUpdateOf(Head(pushQ)))
  /\ toggle' = [toggle EXCEPT
       !.confirmed = IF Head(pushQ).type = "new_like" THEN "like" ELSE "unlike"]
  /\ pushQ' = Tail(pushQ)
  /\ UNCHANGED <<wsVars, serverFeed, nextId, page, hasMore, loading, loadingMore,
                 error, newPostsCount, user, atTop, requests, removed, userId, withheld,
                 unsubs>>

\* the toggle request resolves: handleLike goes on to its finally
ToggleResolved ==
  /\ toggle.req = "applied"
  /\ view' = handleLikeResolved(view)
  /\ toggle' = [toggle EXCEPT !.req = "none"]
  /\ Note("toggle_ok", view.id, FALSE)
  /\ UNCHANGED <<wsVars, feedVars, hookPosts, withheld, unsubs>>

\* the toggle request rejects (the server refused it or was not reached, or
\* its answer was lost or came after the 30 s timeout): handleLike's catch
ToggleRejected ==
  /\ toggle.req \in {"sent", "applied"}
  /\ view' = handleLikeRejected(view)
  /\ toggle' = [toggle EXCEPT !.req = "none"]
  /\ Note("toggle_fail", view.id, toggle.req = "applied")
  /\ UNCHANGED <<wsVars, feedVars, hookPosts, withheld, unsubs>>

\* another user likes or unlikes the post the component shows: the pushed
\* like_update is handled
OtherLike ==
  \E cnt \in 0..MaxLikes, isLike \in BOOLEAN :
    /\ DeliverLikeUpdate([post_id |-> view.id, likes_count |-> cnt,
                          user |-> "u2", isLike |-> isLike])
    /\ UNCHANGED <<serverFeed, nextId, page, hasMore, loading, loadingMore, error,
                   newPostsCount, user, atTop, requests, pushQ, removed, userId, wsVars,
                   toggle, withheld, unsubs>>

ToggleNext ==
  \/ HandleLike
  \/ ServerToggle
  \/ PushLikeFrame
  \/ ToggleResolved
  \/ ToggleRejected
  \/ OtherLike

ToggleSpec == ToggleInit /\ [][ToggleNext]_vars

(* ------------------- a Post while other events arrive ----------------- *)
CommentEvents == {"new_comment", "comment_deleted"}

\* a comment is added to or deleted from some post: the pushed event is
\* handled by the feed view and by a usePosts consumer, and the Post whose
\* post object was replaced runs its effect on [post]
PushComment ==
  \E pid \in 1..MaxPosts, type \in CommentEvents :
    /\ type = "new_comment" =>
         /\ \A i \in 1..Len(posts) :
              posts[i].id = pid => posts[i].comments_count < MaxComments
         /\ \A i \in 1..Len(hookPosts) :
              hookPosts[i].id = pid => hookPosts[i].comments_count < MaxComments
    /\ posts' = IF type = "new_comment"
                THEN HandleNewComment(posts, [post_id |-> pid])
                ELSE HandleCommentDeleted(posts, [post_id |-> pid])
    /\ hookPosts' = IF type = "new_comment"
                    THEN HandleNewComment(hookPosts, [post_id |-> pid])
                    ELSE HandleCommentDeleted(hookPosts, [post_id |-> pid])
    /\ view' = IF pid = view.id THEN PropSync(view, posts') ELSE view
    /\ NoteX(type, pid, FALSE, 0, "")
    /\ UNCHANGED <<serverFeed, nextId, page, hasMore, loading, loadingMore, error,
                   newPostsCount, user, atTop, requests, pushQ, removed, userId, wsVars,
                   toggle, withheld, unsubs>>

\* a like or unlike of a post other than the one the component shows
ElsewhereLike ==
  \E pid \in 1..MaxPosts, cnt \in 0..MaxLikes, who \in Actors, isLike \in BOOLEAN :
    /\ pid # view.id
    /\ Has(posts, pid)
    /\ DeliverLikeUpdate([post_id |-> pid, likes_count |-> cnt,
                          user |-> who, isLike |-> isLike])
    /\ UNCHANGED <<serverFeed, nextId, page, hasMore, loading, loadingMore, error,
                   newPostsCount, user, atTop, requests, pushQ, removed, userId, wsVars,
                   toggle, withheld, unsubs>>

\* a loaded feed view and a usePosts consumer that receive comment events
CountNext ==
  \/ PushComment

CountSpec == LikeInit /\ [][CountNext]_vars

CommentNext ==
  \/ HandleLike
  \/ ServerToggle
  \/ PushLikeFrame
  \/ ToggleResolved
  \/ ToggleRejected
  \/ PushComment
  \/ ElsewhereLike

\* the Post of a feed view that shows it and at most one other post
CommentInit == ToggleInit /\ Len(posts) <= 2

CommentSpec == CommentInit /\ [][CommentNext]_vars

(* ---------------- a Post that is unmounted and mounted again ----------- *)
\* the request likesAPI.toggleLike(post.id) of a Post component; live tells
\* whether the component whose handleLike awaits it is still mounted
ToggleReq(id, live) == [toggleOf |-> id, live |-> live]

\* the toggle requests in flight for a post
TogglesInFlight(id) ==
  CopiesIn(ToggleReq(id, TRUE), requests) + CopiesIn(ToggleReq(id, FALSE), requests)

\* Post.handleLike as the like button calls it, up to its await
handleLikePress(v) == IF v.isLiking THEN v ELSE handleLike(v)

\* the viewer presses the like button of the Post
LikePress ==
  /\ view.id # 0
  /\ ~view.isLiking => BagCardinality(requests) < MaxRequests
  /\ view' = handleLikePress(view)
  /\ requests' = IF view.isLiking THEN requests
                 ELSE requests (+) SetToBag({ToggleReq(view.id, TRUE)})
  /\ NoteX("handleLike", view.id, view.isLiking, 0, user)
  /\ UNCHANGED <<wsVars, serverFeed, nextId, posts, page, hasMore, loading,
                 loadingMore, error, newPostsCount, user, atTop, pushQ, removed,
                 userId, toggle, hookPosts, withheld, unsubs>>

\* a toggle request resolves or rejects: handleLike goes on after its await;
\* the setters of a component that is no longer mounted change nothing
LikeAnswered ==
  \E r \in BagToSet(requests), ok \in BOOLEAN :
    /\ requests' = requests (-) SetToBag({r})
    /\ view' = IF ~r.live THEN view
               ELSE IF ok THEN handleLikeResolved(view)
               ELSE handleLikeRejected(view)
    /\ Note(IF ok THEN "toggle_ok" ELSE "toggle_fail", view.id, r.live)
    /\ UNCHANGED <<wsVars, serverFeed, nextId, posts, page, hasMore, loading,
                   loadingMore, error, newPostsCount, user, atTop, pushQ, removed,
                   userId, toggle, hookPosts, withheld, unsubs>>

\* the page with the feed is left and entered again (the routes of App), or
\* the list drops the post and gets it back: the Post component of the post
\* is unmounted and a new one is mounted for it; no request is cancelled
PostRemount ==
  /\ view.id # 0
  /\ Has(posts, view.id)
  /\ view' = MountPost(PostOf(posts, view.id))
  /\ requests' = IF TogglesInFlight(view.id) = 0 THEN EmptyBag
                 ELSE [r \in {ToggleReq(view.id, FALSE)} |-> TogglesInFlight(view.id)]
  /\ Note("remount", view.id, view.isLiking)
  /\ UNCHANGED <<wsVars, serverFeed, nextId, posts, page, hasMore, loading,
                 loadingMore, error, newPostsCount, user, atTop, pushQ, removed,
                 userId, toggle, hookPosts, withheld, unsubs>>

RemountNext ==
  \/ LikePress
  \/ LikeAnswered
  \/ PostRemount
  \/ OtherLike

RemountSpec == ToggleInit /\ [][RemountNext]_vars

(* ----------------------- transport: properties ------------------------ *)
CloseOps == {"onclose", "stale_onclose"}

StrictlyIncreasing(q) == \A i \in 1..Len(q) : \A j \in 1..Len(q) : i < j => q[i] < q[j]

\* C3: after disconnect() no connection attempt is made until connect() is
\* called explicitly again: a backoff timer that fires while the last
\* lifecycle call was disconnect() does not call connect
C3_NoAttemptAfterDisconnect == (last.op = "timer" /\ stopped) => ~last.conn

\* C4: whenever the session is not authenticated and the connect effect has
\* reacted to it, the transport has no connecting or open socket and nothing
\* pending that will open one (no delayed connect of reconnect(), no backoff
\* timer)
C4_UnauthNoConnection ==
  (mounted /\ ~authed /\ ~effAuthed) =>
    /\ ws.rs \notin {"CONNECTING", "OPEN"}
    /\ manualTimers = 0
    /\ timers = EmptyBag

\* C5: the handlers registered by external consumers stay registered across
\* disconnect(): while the provider is mounted its four status listeners are
\* on the bus, and while a feed view's subscription effect is in force its
\* five handlers are on the bus
C5_ExternalHandlersKept ==
  /\ mounted => \A ev \in BindingEvents : InSeq(BindingHandler(ev), listeners[ev])
  /\ feedEffConn => \A ev \in FeedEvents : InSeq(FeedHandler(ev), listeners[ev])

\* C6: without an open in between, each of the first 5 abnormal closes
\* schedules exactly one attempt and the delays scheduled are strictly
\* increasing; the next abnormal close emits max_reconnect_attempts and
\* schedules nothing; after that emission no backoff timer calls connect
\* until connect() is called explicitly
C6_BackoffBudget ==
  [][/\ (last'.op \in CloseOps /\ last'.code # NormalClosure
           /\ reconnectAttempts < maxReconnectAttempts)
        => /\ reconnectAttempts' = reconnectAttempts + 1
           /\ BagCardinality(timers') = BagCardinality(timers) + 1
           /\ Len(schedLog') = reconnectAttempts'
           /\ StrictlyIncreasing(schedLog')
           /\ ~exhausted'
     /\ (last'.op \in CloseOps /\ last'.code # NormalClosure
           /\ reconnectAttempts = maxReconnectAttempts)
        => /\ exhausted'
           /\ timers' = timers
           /\ reconnectAttempts' = reconnectAttempts
     /\ (last'.op = "timer" /\ last'.conn) => ~exhausted
    ]_vars

\* C7: a backoff timer that fires calls connect only if the current socket
\* is not open at that moment
C7_TimerRespectsOpenSocket ==
  [][(last'.op = "timer" /\ last'.conn) => ws.rs # "OPEN"]_vars

\* C8 as stated: the delay of the n-th scheduled attempt is
\* reconnectDelay * 2^n
C8_DelayAsStated ==
  \A i \in 1..Len(schedLog) : schedLog[i] = reconnectDelay * Pow2(i)

\* C8 amended: the delay of every scheduled attempt is
\* reconnectDelay * 2^(attemptCount - 1), attemptCount being the counter
\* after its increment for that attempt; the timer is pending right after
C8_DelayAmended ==
  [][reconnectAttempts' = reconnectAttempts + 1
       => /\ schedLog' = Append(schedLog, reconnectDelay * Pow2(reconnectAttempts' - 1))
          /\ BagIn(reconnectDelay * Pow2(reconnectAttempts' - 1), timers')
    ]_vars

C8_Witness ==
  /\ reconnectAttempts = 3
  /\ schedLog = <<1000, 2000, 4000>>
  /\ BagIn(4000, timers)

\* C9: a close with code 1000 schedules nothing and leaves attemptCount
\* unchanged; a close with any other code received at attemptCount 0
\* schedules exactly one reconnect and sets attemptCount to 1
C9_CloseCodePolicy ==
  [][/\ (last'.op \in CloseOps /\ last'.code = NormalClosure)
        => /\ timers' = timers
           /\ reconnectAttempts' = reconnectAttempts
     /\ (last'.op \in CloseOps /\ last'.code # NormalClosure /\ reconnectAttempts = 0)
        => /\ reconnectAttempts' = 1
           /\ BagCardinality(timers') = BagCardinality(timers) + 1
    ]_vars

C9_Witness ==
  /\ last.op = "onclose"
  /\ last.code = 1006
  /\ reconnectAttempts = 1
  /\ BagCardinality(timers) = 1
(* ------------------------ feed view: properties ----------------------- *)
\* C1: the post list never contains the same post id twice, whatever the
\* interleaving of pushed new_post events and page fetches
C1_NoDuplicateIds ==
  \A i \in 1..Len(posts) : \A j \in 1..Len(posts) : i # j => posts[i].id # posts[j].id

\* C2: once the view has handled post_deleted for an id, that id is absent
\* from the post list in every later state
C2_DeletedStaysAbsent == \A x \in removed : ~Has(posts, x)

\* C10: handling like_update sets likes_count of the posts with the
\* payload's post_id to the payload's likes_count and leaves every other post
\* as it was; without such a post the list is unchanged; handling the same
\* event a second time changes nothing
C10_LikeUpdateOverwrites ==
  [][last'.op = "like_update" =>
       /\ Len(posts') = Len(posts)
       /\ \A i \in 1..Len(posts) :
            IF posts[i].id = last'.code
            THEN posts'[i].id = posts[i].id /\ posts'[i].likes_count = last'.arg
            ELSE posts'[i] = posts[i]
       /\ ~Has(posts, last'.code) => posts' = posts
       /\ last = last' => posts' = posts
    ]_vars

C10_Witness ==
  /\ last.op = "like_update"
  /\ last.arg = MaxLikes
  /\ \E i \in 1..Len(posts) : posts[i].id = last.code /\ posts[i].likes_count = last.arg
  /\ \E j \in 1..Len(posts) : posts[j].id # last.code /\ posts[j].likes_count = 1

C12_ConfirmedLikeSticks ==
  toggle.confirmed # "none" => view.isLiked = (toggle.confirmed = "like")

NoDup(ps) == \A i \in 1..Len(ps) : \A j \in 1..Len(ps) : i # j => ps[i].id # ps[j].id

\* C13: handling a pushed new_post never makes an id appear twice in the
\* post list, whether its id repeats an earlier event or the post is already
\* there from a fetch or a local insertion: an event whose id is present
\* leaves the list and the pending count unchanged, and so does a local
\* insertion of a post that a push has already brought
C13_PushNeverDuplicates ==
  [][/\ NoDup(posts')
     /\ (last'.op \in {"new_post", "local_create"} /\ Has(posts, last'.code))
          => (posts' = posts /\ newPostsCount' = newPostsCount)
    ]_vars

C13_Witness ==
  /\ last.op = "new_post"
  /\ last.conn
  /\ last.arg = 1
  /\ Has(posts, last.code)
  /\ Len(posts) >= 2
  /\ newPostsCount = 0

\* C14: a pushed new_post whose id is not in the list is put at the front of
\* the list, the pending count unchanged, when the viewer is at the top (an
\* empty list becomes exactly that post); otherwise the list is unchanged and
\* the pending count grows by exactly 1
C14_InsertOrWithhold ==
  [][(last'.op = "new_post" /\ ~Has(posts, last'.code)) =>
       IF atTop
       THEN /\ Len(posts') = Len(posts) + 1
            /\ posts'[1].id = last'.code
            /\ \A i \in 1..Len(posts) : posts'[i + 1] = posts[i]
            /\ newPostsCount' = newPostsCount
       ELSE /\ posts' = posts
            /\ newPostsCount' = newPostsCount + 1
    ]_vars

C14_Witness ==
  /\ last.op = "new_post"
  /\ last.conn
  /\ last.arg = 0
  /\ Len(posts) = 1
  /\ posts[1].id = last.code
  /\ newPostsCount = 0

C16_DeleteRemovesOnlyThat ==
  [][last'.op = "post_deleted" =>
       LET keep == {i \in 1..Len(posts) : posts[i].id # last'.code}
       IN /\ Len(posts') = Cardinality(keep)
          /\ \A i \in keep : posts'[Cardinality({j \in keep : j <= i})] = posts[i]
          /\ ~Has(posts', last'.code)
          /\ ~Has(posts, last'.code) => posts' = posts
          /\ newPostsCount' = newPostsCount
          /\ atTop' = atTop
    ]_vars

C16_Witness ==
  /\ last.op = "post_deleted"
  /\ last.conn
  /\ ~atTop
  /\ newPostsCount > 0
  /\ Len(posts) >= 1
  /\ posts[1].id > last.code


(* ------------------------ the event bus (C17..C19) ------------------- *)
\* the callbacks registered for an event type, as a set
Registered(ls, ev) == IF ev \in DOMAIN ls THEN {ls[ev][i] : i \in 1..Len(ls[ev])} ELSE {}

\* what an emission of ev with data invokes when ls are the subscriptions
ExpectedCalls(ls, ev, data) ==
  IF ev \in DOMAIN ls
  THEN [i \in 1..Len(ls[ev]) |-> [h |-> ls[ev][i], data |-> data]]
  ELSE <<>>

\* C17: the function returned by subscribe removes, at its first call, the
\* callback it was returned for and no other subscription; a later call of
\* the same function leaves every subscription as it was, whatever the
\* state of the bus.
C17_UnsubscribeOnceOnly ==
  [][/\ (last'.op = "unsub_first") =>
          /\ last'.who \notin Registered(listeners', last'.ev)
          /\ \A ev \in DOMAIN listeners :
               Registered(listeners', ev) \cup (IF ev = last'.ev THEN {last'.who} ELSE {})
                 = Registered(listeners, ev) \cup (IF ev = last'.ev THEN {last'.who} ELSE {})
     /\ (last'.op = "unsub_again") => listeners' = listeners]_vars

\* C18: an emission invokes every callback registered for the event type,
\* in the order of registration and with the emitted data; a callback that
\* throws stops neither the callbacks registered after it nor the emitter.
C18_EmitReachesAllInOrder ==
  [][/\ (last'.op = "emit") =>
          /\ calls' = ExpectedCalls(listeners, last'.ev, [id |-> 1])
          /\ listeners' = listeners
     /\ (last'.op = "subscribe" /\ last'.ev \in DOMAIN listeners) =>
          listeners'[last'.ev] = IF last'.conn THEN listeners[last'.ev]
                                 ELSE Append(listeners[last'.ev], last'.who)]_vars

\* three callbacks, the throwing one in the middle, registered in an order
\* that is not the order of their names: all three were invoked
C18_Witness ==
  /\ last.op = "emit"
  /\ Len(calls) = 3
  /\ calls[1].h = "h3"
  /\ calls[2].h \in Throwing
  /\ calls[3].h = "h1"

\* C19: a callback that was unsubscribed, through the returned function or
\* through unsubscribe, is no longer registered and is invoked by no
\* emission, not even one made right after it in the same task; an emission
\* invokes registered callbacks only.
C19_UnsubscribedGetsNothing ==
  [][/\ (last'.op \in {"unsub_first", "unsub_again", "unsubscribe", "unsub_emit"}) =>
          last'.who \notin Registered(listeners', last'.ev)
     /\ (last'.op = "emit") =>
          \A i \in 1..Len(calls') : calls'[i].h \in Registered(listeners, last'.ev)
     /\ (last'.op = "unsub_emit") =>
          \A i \in 1..Len(calls') :
            /\ calls'[i].h # last'.who
            /\ calls'[i].h \in Registered(listeners, last'.ev)]_vars

\* one of three callbacks was unsubscribed and the emission that followed
\* at once invoked the other two
C19_Witness ==
  /\ last.op = "unsub_emit"
  /\ last.who = "h2"
  /\ Len(calls) = 2

(* ------------------------ inbound frames (C20) ------------------------ *)
\* the event and payload the statement gives for a frame
StatedEvent(m) ==
  CASE m.type \in {"new_like", "unlike"} ->
         [ev |-> "like_update", data |-> [isLike |-> m.type = "new_like"] @@ m.data]
    [] m.type = "pong" -> [ev |-> "", data |-> m.data]
    [] OTHER -> [ev |-> m.type, data |-> m.data]

\* C20 as stated, for the types the statement names and for an unrecognized
\* one: new_like and unlike are emitted as like_update with isLike added,
\* pong emits nothing, every other frame is emitted under its own type with
\* its data unchanged.
C20_FramesAsStated ==
  [][(last'.op = "frame" /\ last'.who # "connected") =>
        calls' = ExpectedCalls(listeners, StatedEvent(last'.msg).ev,
                               StatedEvent(last'.msg).data)]_vars

\* the event and payload with the two exceptions: a connected frame is
\* emitted as authenticated, and the payload of new_comment is the data with
\* post_id set to the post_id the frame carries beside its data
AmendedEvent(m) ==
  CASE m.type = "connected" -> [ev |-> "authenticated", data |-> m.data]
    [] m.type = "new_comment" ->
         [ev |-> "new_comment", data |-> [m.data EXCEPT !.post_id = m.post_id]]
    [] OTHER -> StatedEvent(m)

\* C20 amended: as stated for new_like, unlike, pong, new_post, post_deleted,
\* comment_deleted and unrecognized types; connected is emitted as
\* authenticated; new_comment is emitted with post_id taken from the frame.
C20_FramesAmended ==
  [][(last'.op = "frame") =>
        /\ calls' = ExpectedCalls(listeners, AmendedEvent(last'.msg).ev,
                                  AmendedEvent(last'.msg).data)
        /\ listeners' = listeners]_vars

\* an unlike frame reached the like_update callback with isLike false
C20_Witness ==
  /\ last.op = "frame"
  /\ last.who = "unlike"
  /\ Len(calls) = 1
  /\ calls[1].h = RecHandler("like_update")
  /\ calls[1].data.isLike = FALSE
  /\ calls[1].data.post_id = last.msg.data.post_id


(* --------------------- the transport of a session --------------------- *)
\* C21: a frame that cannot be decoded (text that is not JSON, or null)
\* invokes no callback and leaves the socket, isConnected, the attempt
\* counter, the heartbeat, the subscriptions and the provider's status as
\* they were; a well-formed frame is dispatched as usual, also right after a
\* frame that could not be decoded.
C21_MalformedFrameDropped ==
  [][(last'.op = "raw") =>
       IF last'.who # "message"
       THEN /\ calls' = <<>>
            /\ UNCHANGED <<ws, stale, isConnected, reconnectAttempts, pingInterval,
                           listeners, timers, token, bIsConnected, connectionStatus>>
       ELSE calls' = ExpectedCalls(listeners, AmendedEvent(last'.msg).ev,
                                   AmendedEvent(last'.msg).data)]_vars

\* a new_post frame reached the recording callback right after a frame that
\* could not be decoded
C21_Witness ==
  /\ last.op = "raw"
  /\ last.who = "message"
  /\ last.msg.type = "new_post"
  /\ last.conn
  /\ calls = <<[h |-> RecHandler("new_post"), data |-> [post_id |-> 1]]>>


\* the fields of the service and of the provider
TransportFields ==
  <<ws, stale, listeners, reconnectAttempts, isConnected, token, pingInterval,
    timers, bIsConnected, connectionStatus, manualTimers>>

\* C22: send hands the serialized message to the socket and returns true
\* exactly when the current socket is open; otherwise it hands over nothing
\* and returns false. In both cases it changes no field, and no later step
\* transmits the message: nothing is queued or retried. The provider's send
\* transmits and returns true only when the socket is open.
C22_SendOnlyWhenOpen ==
  [][/\ (last'.op = "send") =>
          /\ last'.conn = (ws.rs = "OPEN")
          /\ calls' = IF ws.rs = "OPEN"
                      THEN <<[h |-> "ws.send", data |-> [json |-> [type |-> last'.who]]]>>
                      ELSE <<>>
          /\ UNCHANGED TransportFields
     /\ (last'.op = "provider_send") =>
          /\ last'.conn => ws.rs = "OPEN"
          /\ calls' = IF last'.conn
                      THEN <<[h |-> "ws.send", data |-> [json |-> [type |-> last'.who]]]>>
                      ELSE <<>>
          /\ UNCHANGED TransportFields
     /\ (last'.op \notin {"send", "provider_send"}) =>
          \A i \in 1..Len(calls') :
            calls'[i].h = "ws.send" =>
              /\ last'.op = "ping"
              /\ calls'[i].data = [json |-> [type |-> "ping"]]]_vars

\* send was called while the socket was closing, the flag isConnected still
\* true: it returned false and nothing was transmitted
C22_Witness ==
  /\ last.op = "send"
  /\ ~last.conn
  /\ ws.rs = "CLOSING"
  /\ isConnected
  /\ calls = <<>>



\* C23: when the socket opens, the attempt counter is 0 and isConnected is
\* true afterwards, connected is emitted to the callbacks registered for it,
\* and then a heartbeat interval of 30000 ms (30 s) is started; every firing
\* of the interval calls send with {type: "ping"}, which goes out when the
\* socket is open.
C23_OpenStartsHeartbeat ==
  [][/\ (last'.op = "onopen") =>
          /\ reconnectAttempts' = 0
          /\ isConnected'
          /\ pingInterval'
          /\ calls' = (IF InSeq(RecHandler("connected"), listeners["connected"])
                       THEN <<[h |-> RecHandler("connected"), data |-> [connected |-> TRUE]]>>
                       ELSE <<>>)
                      \o <<[h |-> "setInterval", data |-> 30000]>>
          /\ InSeq(BindingHandler("connected"), listeners["connected"]) =>
               bIsConnected' /\ connectionStatus' = "connected"
     /\ (last'.op = "ping") =>
          /\ pingInterval
          /\ calls' = IF ws.rs = "OPEN"
                      THEN <<[h |-> "ws.send", data |-> [json |-> [type |-> "ping"]]]>>
                      ELSE <<>>]_vars

\* a socket opened after two failed attempts: the counter is back at 0, the
\* recording callback got connected and the interval was started
C23_Witness ==
  /\ last.op = "onopen"
  /\ last.arg = 2
  /\ reconnectAttempts = 0
  /\ Len(calls) = 2
  /\ pingInterval


(* ------------------------ manual reconnection ------------------------- *)
\* C24: reconnect() of an authenticated session disconnects at once (no
\* socket, heartbeat stopped, isConnected false) and sets a timer of 100 ms,
\* whatever the attempt counter is and whether or not
\* max_reconnect_attempts was emitted; when that timer fires, connect is
\* called with the credential and creates a socket; and the timer does fire.
C24_ManualReconnectAlways ==
  /\ [][/\ (last'.op = "reconnect" /\ authed) =>
             /\ ws'.rs = "NULL"
             /\ ~isConnected'
             /\ ~pingInterval'
             /\ manualTimers' = manualTimers + 1
             /\ calls' = <<[h |-> "setTimeout", data |-> 100]>>
        /\ (last'.op = "manual_timer") =>
             /\ manualTimers' = manualTimers - 1
             /\ token' = AuthToken
             /\ ~ctorThrows => ws'.rs = "CONNECTING"
        /\ (last'.op \notin {"reconnect", "manual_timer"}) =>
             manualTimers' = manualTimers]_vars
  /\ ((last.op = "reconnect" /\ manualTimers > 0) ~> (last.op = "manual_timer"))

\* reconnect() was called after max_reconnect_attempts had been emitted: the
\* transport is disconnected and the delayed connect is pending
C24_Witness ==
  /\ last.op = "reconnect"
  /\ exhausted
  /\ reconnectAttempts = maxReconnectAttempts
  /\ manualTimers = 1
  /\ ws.rs = "NULL"


(* --------------------------- failed fetches --------------------------- *)
\* C25: the step in which a page request fails (page 1 or a later page)
\* changes neither the post list nor the page number nor the has-more flag,
\* sets the error state and ends both loading states, so that the controls
\* that issue a request are usable again; issuing a request does not touch
\* the list, the page number or the flag either.
C25_FailedFetchKeepsView ==
  [][/\ (last'.op = "fetch_fail") =>
          /\ UNCHANGED <<posts, page, hasMore>>
          /\ error'
          /\ ~loading'
          /\ ~loadingMore'
     /\ (last'.op \in {"load_more", "refresh", "retry"}) =>
          /\ UNCHANGED <<posts, page, hasMore>>
          /\ ~error']_vars

\* the request for page 2 failed: the first page is still shown, the view
\* is still on page 1 with more to load, and the error is set
C25_Witness ==
  /\ last.op = "fetch_fail"
  /\ last.code = 2
  /\ last.conn
  /\ Len(posts) = PageSize
  /\ page = 1
  /\ hasMore
  /\ error

(* ------------------------ the like toggle: properties ----------------- *)
\* C26: pressing like flips the displayed is_liked and moves the displayed
\* likes_count by exactly 1 while the request is still unanswered, and
\* captures the pair it replaced; when the request fails the displayed pair
\* is set back to the captured pair, which no step in between has changed
C26_OptimisticThenRollback ==
  [][/\ last'.op = "handleLike" =>
          /\ view'.isLiked = ~view.isLiked
          /\ view'.likesCount - view.likesCount \in {1, -1}
          /\ view'.likesCount - view.likesCount = IF view.isLiked THEN -1 ELSE 1
          /\ view'.previousIsLiked = view.isLiked
          /\ view'.previousCount = view.likesCount
          /\ toggle'.req = "sent"
     /\ (view.isLiking /\ last'.op # "handleLike") =>
          /\ view'.previousIsLiked = view.previousIsLiked
          /\ view'.previousCount = view.previousCount
     /\ last'.op = "toggle_fail" =>
          /\ view.isLiking
          /\ view'.isLiked = view.previousIsLiked
          /\ view'.likesCount = view.previousCount]_vars

\* a toggle of a liked post failed and the pair it had replaced is back
C26_Witness ==
  /\ last.op = "toggle_fail"
  /\ view.isLiked
  /\ view.previousIsLiked
  /\ view.likesCount = view.previousCount
  /\ view.likesCount >= 1

\* C27: when a like_update for the shown post has been handled while the
\* viewer's own toggle was in flight and the toggle then fails, the displayed
\* likes_count stays the count that like_update carried
C27_RollbackKeepsPushedCount ==
  [][(/\ last.op = "like_update"
      /\ last.code = view.id
      /\ view.isLiking
      /\ last'.op = "toggle_fail")
       => view'.likesCount = last.arg]_vars

\* C28: while the viewer's toggle is in flight, and once it has succeeded,
\* the displayed is_liked and likes_count are changed by a like_update for
\* the shown post only: a new_comment or comment_deleted for that post and
\* every event for another post leave them as they are
C28_ToggledPairKept ==
  [][(/\ view.isLiking \/ last.op = "toggle_ok"
      /\ last'.op \in CommentEvents
           \/ (last'.op = "like_update" /\ last'.code # view.id))
       => (view'.isLiked = view.isLiked /\ view'.likesCount = view.likesCount)]_vars

(* ------------------ transport: the replaced socket -------------------- *)
\* C29: whenever the current socket is open the heartbeat interval is
\* active; the close event of a socket that has been replaced does not stop
\* the heartbeat of the socket that replaced it
C29_HeartbeatWhileOpen ==
  ws.rs = "OPEN" => pingInterval

\* C30: isConnected is true whenever the current socket is open; a late
\* event of a replaced socket never makes it false while the current socket
\* is open
C30_ConnectedWhileOpen ==
  ws.rs = "OPEN" => isConnected

(* ------------------- session binding: properties ---------------------- *)
\* C31: once the effects of the provider have run and every socket event
\* has been delivered (no socket is connecting or closing, no replaced
\* socket still owes its close event), the isConnected of the provider is
\* true exactly when the current socket is open
C31_BindingFollowsTransport ==
  (/\ mounted
   /\ effAuthed = authed
   /\ stale = EmptyBag
   /\ ws.rs \in {"NULL", "OPEN", "CLOSED"})
    => (bIsConnected <=> ws.rs = "OPEN")

\* the lifecycle events a step handed to the recording callbacks
LifecycleCalls(cs) ==
  {i \in 1..Len(cs) : cs[i].h \in {RecHandler(ev) : ev \in BindingEvents}}

\* C32: handling an inbound frame, whatever its type field, emits none of
\* connected, disconnected, error and max_reconnect_attempts: no callback
\* registered for one of them is called and the status the provider derives
\* from them does not change
C32_FramesEmitNoLifecycle ==
  [][last'.op = "raw" =>
       /\ LifecycleCalls(calls') = {}
       /\ bIsConnected' = bIsConnected
       /\ connectionStatus' = connectionStatus]_vars

(* ----------------------- the feed view: paging ------------------------ *)
\* C33: with a first-page refetch and an append in flight together, in
\* whatever order they complete, the post list is the pages 1..page of the
\* server's feed one after the other: no page in between is missing and no
\* page is there twice
C33_ContiguousPages ==
  [i \in 1..Len(posts) |-> posts[i].id]
    = SubSeq(serverFeed, 1, Min(page * PageSize, Len(serverFeed)))

(* ---------------------- transport: backoff timers --------------------- *)
\* C34: at most one callback set by scheduleReconnect is pending at any
\* time, however the abnormal closes of the current and of replaced sockets,
\* the constructor failures and the connect() calls interleave
C34_OneReconnectTimer ==
  BagCardinality(timers) <= 1

(* --------------------- the feed view: pending posts ------------------- *)
\* the posts that were withheld from the list and are still neither in it
\* nor deleted
StillWithheld == {x \in withheld : ~Has(posts, x) /\ x \notin removed}

\* C35: the pending count is the number of distinct posts that were pushed
\* while the viewer was scrolled away and are still withheld from the list
C35_PendingCountExact ==
  newPostsCount = Cardinality(StillWithheld)

(* ------------------- the feed view: comment counts -------------------- *)
\* the list ps after a comment event that moves the count of post id by d,
\* not below 0
CountMoved(ps, id, d) ==
  [i \in 1..Len(ps) |->
     IF ps[i].id = id
     THEN [ps[i] EXCEPT !.comments_count = IF @ + d < 0 THEN 0 ELSE @ + d]
     ELSE ps[i]]

\* C36: handling new_comment raises the comments_count of the post it
\* names by exactly 1 and handling comment_deleted lowers it by exactly 1,
\* not below 0; every other post is unchanged, and so is the whole list when
\* the post is not in it; the same for the list of a usePosts consumer
C36_CommentCount ==
  [][/\ last'.op = "new_comment" =>
          /\ posts' = CountMoved(posts, last'.code, 1)
          /\ hookPosts' = CountMoved(hookPosts, last'.code, 1)
     /\ last'.op = "comment_deleted" =>
          /\ posts' = CountMoved(posts, last'.code, -1)
          /\ hookPosts' = CountMoved(hookPosts, last'.code, -1)
          /\ \A i \in 1..Len(posts') : posts'[i].comments_count >= 0
     /\ (last'.op \in CommentEvents /\ ~Has(posts, last'.code)) => posts' = posts
     /\ last'.op \in CommentEvents =>
          \A i \in 1..Len(posts) :
            posts[i].id # last'.code => posts'[i] = posts[i]]_vars

\* a comment_deleted was handled for a post whose count is 0 now, in a list
\* where another post has a comment
C36_Witness ==
  /\ last.op = "comment_deleted"
  /\ Has(posts, last.code)
  /\ PostOf(posts, last.code).comments_count = 0
  /\ \E i \in 1..Len(posts) : posts[i].comments_count = 1

(* ---------------------- the feed view: its scope ---------------------- *)
\* C37: in a view scoped to an author a pushed new_post of another author
\* changes neither the list nor the pending count; a new_post of that
\* author is handled as in the global feed: left out when its id is in the
\* list, otherwise inserted at the front or counted as pending
C37_ScopeFilter ==
  [][last'.op = "new_post" =>
       LET data == AuthoredPost(last'.code)
       IN IF userId # "null" /\ data.author_id # userId
          THEN /\ posts' = posts
               /\ newPostsCount' = newPostsCount
               /\ hookPosts' = hookPosts
          ELSE /\ posts' = HandleNewPost(posts, data, atTop).posts
               /\ newPostsCount' = newPostsCount + HandleNewPost(posts, data, atTop).inc
               /\ hookPosts' = usePostsNewPost(hookPosts, data, "null")]_vars

(* --------------------- the feed view: teardown ------------------------ *)
\* C38: the cleanup of a feed view's subscription effect, at teardown and
\* before the effect runs again, removes every handler that run registered:
\* afterwards the bus holds no handler of the view except those of the run
\* now in force, and an emission invokes no other handler of the view
C38_TeardownUnsubscribesAll ==
  [][/\ last'.op \in {"view_effect", "view_teardown"} =>
          \A sub \in unsubs.fresh : sub[2] \notin Registered(listeners', sub[1])
     /\ last'.op = "view_teardown" => ViewOnBus(listeners') = {}
     /\ ViewOnBus(listeners') \subseteq unsubs'.fresh
     /\ last'.op = "emit" =>
          \A i \in 1..Len(calls') :
            calls'[i].h \in ViewHandlers => <<last'.ev, calls'[i].h>> \in unsubs.fresh]_vars

\* a view whose five handlers were on the bus has been torn down
C38_Witness ==
  /\ last.op = "view_teardown"
  /\ last.conn
  /\ Cardinality(unsubs.called) >= 5
  /\ unsubs.fresh = {}
  /\ ViewOnBus(listeners) = {}

(* ------------------ the like toggle: requests in flight --------------- *)
\* C39: for each post at most one like-toggle request is in flight at any
\* time, and a press of the like button while a toggle of the post has not
\* resolved changes no displayed state and issues no request
C39_OneToggleInFlight ==
  [][/\ \A id \in 1..MaxPosts :
          CopiesIn(ToggleReq(id, TRUE), requests')
            + CopiesIn(ToggleReq(id, FALSE), requests') <= 1
     /\ (last'.op = "handleLike" /\ TogglesInFlight(view.id) > 0) =>
          /\ view' = view
          /\ requests' = requests]_vars

====
